---- MODULE Spec2Model ----
(***************************************************************************)
(* Lifecycle model of the account / document services of EditorBackend.    *)
(*                                                                         *)
(* The two tables (users, articles) are paranoid Sequelize models over a   *)
(* MySQL store: every finder hides rows whose deletedAt is set unless it   *)
(* is called with paranoid:false, while the unique indexes, the primary    *)
(* key and the foreign key of the datastore range over every row.          *)
(*                                                                         *)
(* What an operation answers is the value of its ...Outcome operator in    *)
(* the state it runs in.  An operation that throws, and a read, leave      *)
(* every variable alone.                                                   *)
(***************************************************************************)
EXTENDS Integers, FiniteSets, Sequences, TLC

(***************************************************************************)
(* Bounds of the model.                                                    *)
(***************************************************************************)
MaxUsers == 2
MaxArticles == 2
\* requests served in a run of SpecRace, over all connections
MaxReqs == 3
\* the largest page and the largest limit a listing request asks for
MaxPage == 3
MaxLimit == 2

\* the largest number of matching records the page count is computed for
MaxTotal == 23

Usernames == {"alice", "bob"}
Emails == {"a@x.com", "b@x.com"}
Plain == {"Secret1A", "wrong"}
Roles == {"user", "admin"}
Titles == {"T1", "T2"}
Contents == {"body1", "body2"}

UserIds == 1..MaxUsers
ArticleIds == 1..MaxArticles

\* an absent optional string of a request (undefined, or the falsy "")
NONE == ""
\* an absent optional number of a request (undefined, or the falsy 0)
NOID == 0
\* currentUserId of a request that carries none (undefined)
NOACTOR == -1
\* deletedAt of a row that is not soft-deleted
NULL == 0
\* the timestamp a paranoid destroy writes into deletedAt
NOW == 1

VARIABLES
    users,          \* rows of table users: id -> row
    articles,       \* rows of table articles: id -> row
    nextUserId,     \* AUTO_INCREMENT counter of users
    nextArticleId,  \* AUTO_INCREMENT counter of articles
    purgedUsers,    \* history: ids of the user rows physically removed
    purgedArticles, \* history: ids of the article rows physically removed
    reqs            \* the requests in flight, one slot per connection

tables == <<users, articles, nextUserId, nextArticleId>>
history == <<purgedUsers, purgedArticles>>
vars == <<users, articles, nextUserId, nextArticleId,
          purgedUsers, purgedArticles, reqs>>

(***************************************************************************)
(* The hashing collaborator (bcryptjs).  A credential is a plaintext       *)
(* wrapped by zero or more applications of hash; compare(p, h) is true     *)
(* exactly when h is the hash of p.                                        *)
(***************************************************************************)
plain(p) == [base |-> p, depth |-> 0]

hash(c) == [base |-> c.base, depth |-> c.depth + 1]

compare(c, h) == h = hash(c)

\* no password key in a set of values
NOPW == [base |-> "", depth |-> 0]

\* what a login request can present: a plaintext, or any other string,
\* the bcrypt string of a plaintext included
Credentials == {plain(p) : p \in Plain} \cup {hash(plain(p)) : p \in Plain}

(***************************************************************************)
(* Text as the datastore compares it.  A string column is a sequence of    *)
(* characters; comparisons run under the default collation of the MySQL    *)
(* connection, which ignores letter case.                                  *)
(***************************************************************************)
\* the characters of the strings the requests of the model carry
Chars(s) ==
    CASE s = "alice"   -> <<"a", "l", "i", "c", "e">>
      [] s = "bob"     -> <<"b", "o", "b">>
      [] s = "a@x.com" -> <<"a", "@", "x", ".", "c", "o", "m">>
      [] s = "b@x.com" -> <<"b", "@", "x", ".", "c", "o", "m">>
      [] s = "A@X.COM" -> <<"A", "@", "X", ".", "C", "O", "M">>
      [] s = "T1"      -> <<"T", "1">>
      [] s = "T2"      -> <<"T", "2">>
      [] s = "body1"   -> <<"b", "o", "d", "y", "1">>
      [] s = "body2"   -> <<"b", "o", "d", "y", "2">>
      [] s = "t"       -> <<"t">>
      [] s = "1"       -> <<"1">>
      [] s = "o"       -> <<"o">>
      [] s = "_"       -> <<"_">>
      [] s = "zz"      -> <<"z", "z">>
      [] OTHER         -> <<>>

\* the weight the collation gives a character: a letter and its capital
\* weigh the same
Weight(c) ==
    CASE c = "A" -> "a" [] c = "C" -> "c" [] c = "M" -> "m" [] c = "O" -> "o"
      [] c = "T" -> "t" [] c = "X" -> "x" [] OTHER -> c

Weights(t) == [i \in DOMAIN t |-> Weight(t[i])]

\* the strings of the model and the weights of their characters
Texts ==
    {"alice", "bob", "a@x.com", "b@x.com", "A@X.COM", "T1", "T2",
     "body1", "body2", "t", "1", "o", "_", "zz"}

Collated == [s \in Texts |-> Weights(Chars(s))]

\* column = 'value' under the collation
SameText(a, b) ==
    \/ a = b
    \/ a \in Texts /\ b \in Texts /\ Collated[a] = Collated[b]

(***************************************************************************)
(* Sequelize finders on a paranoid model.                                  *)
(***************************************************************************)
\* a finder that never filters on deletedAt
VisibleAnyState(table, paranoid) == DOMAIN table

\* ids of the rows a finder can see
Visible(table, paranoid) ==
    {i \in DOMAIN table : (~paranoid) \/ table[i].deletedAt = NULL}

\* Model.findByPk(id, {paranoid}); NOID stands for null
findByPk(table, id, paranoid) ==
    IF id \in Visible(table, paranoid) THEN id ELSE NOID

\* Model.findOne({where: {[field]: value, id: {[Op.ne]: exclude}}})
findOne(table, field, value, exclude) ==
    {i \in Visible(table, TRUE) : SameText(table[i][field], value) /\ i # exclude}

\* the unique index of the datastore on one column: any row, any state
UniqueViolation(table, field, value, exclude) ==
    \E i \in DOMAIN table : i # exclude /\ SameText(table[i][field], value)


\* the connections that serve requests side by side
Procs == {"c1", "c2"}

\* no row read yet
NOROW == [username |-> NONE, email |-> NONE]

\* a count whose query has not answered yet
NOTREAD == -1

\* a connection that has served no request yet
Idle ==
    [pc |-> "idle", op |-> NONE, id |-> NOID, username |-> NONE, email |-> NONE,
     title |-> NONE, userId |-> NOID, snap |-> NOROW, res |-> NONE,
     peers |-> 0, n |-> 0,
     total |-> NOTREAD, totalWithDeleted |-> NOTREAD, seen |-> {}]

Init ==
    /\ users = <<>>
    /\ articles = <<>>
    /\ nextUserId = 1
    /\ nextArticleId = 1
    /\ purgedUsers = {}
    /\ purgedArticles = {}
    /\ reqs = [p \in Procs |-> Idle]

(***************************************************************************)
(* User.hashPassword, the BeforeCreate / BeforeUpdate hook of the model:   *)
(* it hashes the password of a new record, and of an existing record       *)
(* whose password differs from the previously stored one.                  *)
(***************************************************************************)
\* a hook that hashes on every save, whether the password changed or not
hashPasswordOnEverySave(isNewRecord, previous, password) == hash(password)

hashPassword(isNewRecord, previous, password) ==
    IF isNewRecord \/ previous # password THEN hash(password) ELSE password

(***************************************************************************)
(* User.create: the hook, then the INSERT under the unique indexes         *)
(* username_unique and email_unique.                                       *)
(***************************************************************************)
\* a users table without the unique indexes
UserInsertUnchecked(username, email) == FALSE

UserInsertRejected(username, email) ==
    \/ UniqueViolation(users, "username", username, NOID)
    \/ UniqueViolation(users, "email", email, NOID)

UserCreate(username, email, password, role) ==
    (nextUserId :> [username |-> username,
                    email |-> email,
                    password |-> hashPassword(TRUE, password, password),
                    role |-> role,
                    deletedAt |-> NULL]) @@ users

\* the two findOne guards of createUser
EmailTaken(email) == findOne(users, "email", email, NOID) # {}

UsernameTaken(username) == findOne(users, "username", username, NOID) # {}

(***************************************************************************)
(* UserService.createUser                                                  *)
(***************************************************************************)
createUserOutcome(username, email) ==
    IF EmailTaken(email) THEN "DuplicateValue"
    ELSE IF UsernameTaken(username) THEN "DuplicateValue"
    ELSE IF UserInsertRejected(username, email) THEN "UniqueConstraintError"
    ELSE "ok"

createUser(username, email, password, role) ==
    /\ nextUserId <= MaxUsers
    /\ LET hashedPassword == hash(plain(password))
           theRole == IF role # NONE THEN role ELSE "user"
       IN
       IF createUserOutcome(username, email) = "ok"
       THEN /\ users' = UserCreate(username, email, hashedPassword, theRole)
            /\ nextUserId' = nextUserId + 1
       ELSE UNCHANGED <<users, nextUserId>>
    /\ UNCHANGED <<articles, nextArticleId, history, reqs>>

(***************************************************************************)
(* UserService.getUserById                                                 *)
(***************************************************************************)
getUserByIdOutcome(id) == findByPk(users, id, TRUE)

getUserById(id) ==
    /\ getUserByIdOutcome(id) \in UserIds \cup {NOID}
    /\ UNCHANGED vars

(***************************************************************************)
(* instance.update(values) of a user row: the given keys are set, the      *)
(* BeforeUpdate hook runs, and the row is written.                         *)
(***************************************************************************)
Pick(given, old) == IF given # NONE THEN given ELSE old

UserUpdate(row, username, email, password, role) ==
    [username |-> Pick(username, row.username),
     email |-> Pick(email, row.email),
     password |-> IF password # NOPW
                  THEN hashPassword(FALSE, row.password, password)
                  ELSE hashPassword(FALSE, row.password, row.password),
     role |-> Pick(role, row.role),
     deletedAt |-> row.deletedAt]

\* the unique indexes of users seen by an UPDATE of row id
UserUpdateRejected(id, row) ==
    \/ UniqueViolation(users, "username", row.username, id)
    \/ UniqueViolation(users, "email", row.email, id)

\* the lookup of updateUser / updateUserRole / updateArticle
\* an update that would reach the soft-deleted rows too
UpdateLookupAnyState(table, id) == findByPk(table, id, FALSE)

UpdateLookup(table, id) == findByPk(table, id, TRUE)

(***************************************************************************)
(* UserService.updateUser                                                  *)
(***************************************************************************)
updateUserOutcome(id, username, email, password, role) ==
    IF UpdateLookup(users, id) = NOID THEN "NotFound"
    ELSE IF /\ email # NONE
            /\ email # users[id].email
            /\ findOne(users, "email", email, id) # {}
    THEN "DuplicateValue"
    ELSE IF /\ username # NONE
            /\ username # users[id].username
            /\ findOne(users, "username", username, id) # {}
    THEN "DuplicateValue"
    ELSE IF UserUpdateRejected(id,
                UserUpdate(users[id], username, email, password, role))
    THEN "UniqueConstraintError"
    ELSE "ok"

updateUser(id, username, email, password, role) ==
    /\ LET hashed == IF password # NONE THEN hash(plain(password)) ELSE NOPW IN
       IF updateUserOutcome(id, username, email, hashed, role) = "ok"
       THEN /\ users' = [users EXCEPT
                           ![id] = UserUpdate(@, username, email, hashed, role)]
       ELSE UNCHANGED users
    /\ UNCHANGED <<articles, nextUserId, nextArticleId, history, reqs>>

(***************************************************************************)
(* UserService.updateUserRole                                              *)
(***************************************************************************)
updateUserRoleOutcome(id) ==
    IF UpdateLookup(users, id) = NOID THEN "NotFound" ELSE "ok"

updateUserRole(id, role) ==
    /\ IF updateUserRoleOutcome(id) = "ok"
       THEN /\ users' = [users EXCEPT
                           ![id] = UserUpdate(@, NONE, NONE, NOPW, role)]
       ELSE UNCHANGED users
    /\ UNCHANGED <<articles, nextUserId, nextArticleId, history, reqs>>

(***************************************************************************)
(* instance.destroy() / instance.restore() / instance.destroy({force})     *)
(***************************************************************************)
Destroy(table, id) == [table EXCEPT ![id].deletedAt = NOW]

\* a restore that would leave deletedAt as it is
RestoreKeepsStamp(table, id) == table

Restore(table, id) == [table EXCEPT ![id].deletedAt = NULL]

ForceDestroy(table, id) == [i \in DOMAIN table \ {id} |-> table[i]]

\* the lookup of deleteUser / deleteArticle
\* a soft delete that would reach the soft-deleted rows too
DeleteLookupAnyState(table, id) == findByPk(table, id, FALSE)

DeleteLookup(table, id) == findByPk(table, id, TRUE)

\* the lookup of restoreUser / restoreArticle
\* a restore that would search the visible rows only
RestoreLookupParanoid(table, id) == findByPk(table, id, TRUE)

RestoreLookup(table, id) == findByPk(table, id, FALSE)

\* the lookup of forceDeleteUser / forceDeleteArticle
ForceDeleteLookup(table, id) == findByPk(table, id, FALSE)

(***************************************************************************)
(* UserService.deleteUser (soft delete)                                    *)
(***************************************************************************)
deleteUserOutcome(id) ==
    IF DeleteLookup(users, id) = NOID THEN "NotFound" ELSE "ok"

deleteUser(id) ==
    /\ IF deleteUserOutcome(id) = "ok"
       THEN /\ users' = Destroy(users, id)
       ELSE UNCHANGED users
    /\ UNCHANGED <<articles, nextUserId, nextArticleId, history, reqs>>

(***************************************************************************)
(* The foreign key articles.userId -> users.id.  The column is NOT NULL    *)
(* and User declares HasMany(Article), which gives the constraint          *)
(* ON DELETE CASCADE: removing a user row removes the rows that name it.   *)
(***************************************************************************)
OwnedBy(id) == {a \in DOMAIN articles : articles[a].userId = id}

\* a foreign key that would leave the documents of a removed owner alone
CascadeNothing(id) == articles

CascadeDelete(id) == [a \in DOMAIN articles \ OwnedBy(id) |-> articles[a]]

(***************************************************************************)
(* UserService.forceDeleteUser (purge)                                     *)
(***************************************************************************)
forceDeleteUserOutcome(id) ==
    IF ForceDeleteLookup(users, id) = NOID THEN "NotFound" ELSE "ok"

forceDeleteUser(id) ==
    /\ IF forceDeleteUserOutcome(id) = "ok"
       THEN /\ users' = ForceDestroy(users, id)
            /\ articles' = CascadeDelete(id)
            /\ purgedUsers' = purgedUsers \cup {id}
            /\ purgedArticles' = purgedArticles \cup OwnedBy(id)
       ELSE UNCHANGED <<users, articles, history>>
    /\ UNCHANGED <<nextUserId, nextArticleId, reqs>>

(***************************************************************************)
(* UserService.restoreUser                                                 *)
(***************************************************************************)
restoreUserOutcome(id) ==
    IF RestoreLookup(users, id) = NOID THEN "NotFound"
    ELSE IF users[id].deletedAt = NULL THEN "NotDeleted"
    ELSE "ok"

restoreUser(id) ==
    /\ IF restoreUserOutcome(id) = "ok"
       THEN /\ users' = Restore(users, id)
       ELSE UNCHANGED users
    /\ UNCHANGED <<articles, nextUserId, nextArticleId, history, reqs>>

(***************************************************************************)
(* UserService.validatePassword (authenticate): the id of the account it   *)
(* returns for an email and a presented credential; NOID stands for null.  *)
(***************************************************************************)
AuthLookup(email) == findOne(users, "email", email, NOID)

\* an authenticate whose finders would not filter on deletedAt
validatePasswordAnyState(email, credential) ==
    LET found == {i \in DOMAIN users : users[i].email = email} IN
    IF found = {} THEN NOID
    ELSE LET user == CHOOSE i \in found : TRUE IN
         IF ~compare(credential, users[user].password) THEN NOID
         ELSE findByPk(users, user, FALSE)

validatePasswordOutcome(email, credential) ==
    LET found == AuthLookup(email) IN
    IF found = {} THEN NOID
    ELSE LET user == CHOOSE i \in found : TRUE IN
         IF ~compare(credential, users[user].password) THEN NOID
         ELSE findByPk(users, user, TRUE)

validatePassword(email, credential) ==
    /\ validatePasswordOutcome(email, credential) \in UserIds \cup {NOID}
    /\ UNCHANGED vars

(***************************************************************************)
(* What the account operations hand back.  A finder called with            *)
(* attributes: {exclude: ['password']} builds its instances without that   *)
(* column; an instance that User.create or a plain finder built carries    *)
(* every column.  A return is the set of the records handed back: empty    *)
(* for null and for a call that throws.                                    *)
(***************************************************************************)
Attributes(row, exclude) == [f \in DOMAIN row \ exclude |-> row[f]]

Records(table, ids, exclude) == {Attributes(table[i], exclude) : i \in ids}

\* return user (the instance User.create built)
createUserReturn(username, email, password, role) ==
    IF createUserOutcome(username, email) # "ok" THEN {}
    ELSE LET theRole == IF role # NONE THEN role ELSE "user"
             created == UserCreate(username, email, hash(plain(password)),
                                   theRole)
         IN Records(created, {nextUserId}, {})

getUserByIdReturn(id) ==
    Records(users, {findByPk(users, id, TRUE)} \ {NOID}, {"password"})

(***************************************************************************)
(* UserService.getUserByEmail, UserService.getUserByUsername               *)
(***************************************************************************)
getUserByEmailReturn(email) ==
    Records(users, findOne(users, "email", email, NOID), {"password"})

getUserByEmail(email) ==
    /\ Cardinality(getUserByEmailReturn(email)) <= 1
    /\ UNCHANGED vars

getUserByUsernameReturn(username) ==
    Records(users, findOne(users, "username", username, NOID), {"password"})

getUserByUsername(username) ==
    /\ Cardinality(getUserByUsernameReturn(username)) <= 1
    /\ UNCHANGED vars

\* UserService.getUsers: the rows its findAndCountAll selects for a role
\* filter, as it builds them; search, order and page pick among these
getUsersRows(role) ==
    Records(users,
            {i \in Visible(users, TRUE) : role # NONE => users[i].role = role},
            {"password"})

\* the re-read that ends updateUser, updateUserRole and restoreUser
updateUserReturn(id, username, email, password, role) ==
    IF updateUserOutcome(id, username, email, password, role) # "ok" THEN {}
    ELSE {Attributes(UserUpdate(users[id], username, email, password, role),
                     {"password"})}

updateUserRoleReturn(id, role) ==
    IF updateUserRoleOutcome(id) # "ok" THEN {}
    ELSE {Attributes(UserUpdate(users[id], NONE, NONE, NOPW, role),
                     {"password"})}

restoreUserReturn(id) ==
    IF restoreUserOutcome(id) # "ok" THEN {}
    ELSE Records(Restore(users, id), {id}, {"password"})

validatePasswordReturn(email, credential) ==
    Records(users, {validatePasswordOutcome(email, credential)} \ {NOID},
            {"password"})

(***************************************************************************)
(* Model.destroy({where: {id: {[Op.in]: ids}, ...}}) on a paranoid model:  *)
(* stamps deletedAt of the visible rows that match.                        *)
(***************************************************************************)
BulkDestroy(table, matched) ==
    [i \in DOMAIN table |->
        IF i \in matched THEN [table[i] EXCEPT !.deletedAt = NOW] ELSE table[i]]

(***************************************************************************)
(* UserService.batchDeleteUsers                                            *)
(***************************************************************************)
\* a destroy that would match the soft-deleted rows too
WhereIdInAnyState(table, ids) == DOMAIN table \cap ids

\* WHERE deletedAt IS NULL AND id IN (ids)
WhereIdIn(table, ids) == Visible(table, TRUE) \cap ids

\* deletedCount, the number of rows the UPDATE matched
batchDeleteUsersOutcome(ids) == Cardinality(WhereIdIn(users, ids))

batchDeleteUsers(ids) ==
    /\ LET matched == WhereIdIn(users, ids) IN
       /\ users' = BulkDestroy(users, matched)
    /\ UNCHANGED <<articles, nextUserId, nextArticleId, history, reqs>>

(***************************************************************************)
(* Article.create(articleData as any).  The controller hands the request   *)
(* body to the service as articleData, so every key of the body that names *)
(* a column is written: a body may carry id (NOID when it does not) and    *)
(* deletedAt (NULL when it does not) besides title, content and userId.    *)
(* The INSERT runs under the primary key, the unique indexes article_title *)
(* and article_content, and the foreign key on userId.                     *)
(***************************************************************************)
Max(a, b) == IF a >= b THEN a ELSE b

ArticleNewId(body) == IF body.id # NOID THEN body.id ELSE nextArticleId

\* an articles table without the foreign key on userId
ArticleInsertNoForeignKey(body) ==
    \/ ArticleNewId(body) \in DOMAIN articles
    \/ UniqueViolation(articles, "title", body.title, NOID)
    \/ UniqueViolation(articles, "content", body.content, NOID)

\* an articles table without the unique indexes: primary and foreign key only
ArticleInsertKeysOnly(body) ==
    \/ ArticleNewId(body) \in DOMAIN articles
    \/ body.userId \notin DOMAIN users

ArticleInsertRejected(body) ==
    \/ ArticleNewId(body) \in DOMAIN articles
    \/ UniqueViolation(articles, "title", body.title, NOID)
    \/ UniqueViolation(articles, "content", body.content, NOID)
    \/ body.userId \notin DOMAIN users

ArticleCreate(body) ==
    (ArticleNewId(body) :> [title |-> body.title,
                            content |-> body.content,
                            userId |-> body.userId,
                            deletedAt |-> body.deletedAt]) @@ articles

\* the two guards of createArticle
\* a createArticle without its owner check
OwnerNeverMissing(userId) == FALSE

\* User.findByPk without the paranoid filter
OwnerMissingAnyState(userId) == findByPk(users, userId, FALSE) = NOID

OwnerMissing(userId) == findByPk(users, userId, TRUE) = NOID

TitleTaken(title) == findOne(articles, "title", title, NOID) # {}

(***************************************************************************)
(* ArticleController.createArticle / ArticleService.createArticle          *)
(***************************************************************************)
createArticleOutcome(body) ==
    IF OwnerMissing(body.userId) THEN "ParentNotFound"
    ELSE IF TitleTaken(body.title) THEN "DuplicateValue"
    ELSE IF ArticleInsertRejected(body) THEN "UniqueConstraintError"
    ELSE "ok"

createArticle(body) ==
    /\ ArticleNewId(body) \in ArticleIds
    /\ IF createArticleOutcome(body) = "ok"
       THEN /\ articles' = ArticleCreate(body)
            /\ nextArticleId' = Max(nextArticleId, ArticleNewId(body) + 1)
       ELSE UNCHANGED <<articles, nextArticleId>>
    /\ UNCHANGED <<users, nextUserId, history, reqs>>

(***************************************************************************)
(* ArticleService.getArticleById                                           *)
(***************************************************************************)
getArticleByIdOutcome(id) == findByPk(articles, id, TRUE)

getArticleById(id) ==
    /\ getArticleByIdOutcome(id) \in ArticleIds \cup {NOID}
    /\ UNCHANGED vars

(***************************************************************************)
(* article.update(updateData), updateData being the request body: title    *)
(* and content when given, and a userId key when the body carries one.     *)
(* The primary key and the timestamps of a stored row are read-only.       *)
(***************************************************************************)
ArticleUpdate(row, patch) ==
    [title |-> Pick(patch.title, row.title),
     content |-> Pick(patch.content, row.content),
     userId |-> IF patch.userId # NOID THEN patch.userId ELSE row.userId,
     deletedAt |-> row.deletedAt]

ArticleUpdateRejected(id, row) ==
    \/ UniqueViolation(articles, "title", row.title, id)
    \/ UniqueViolation(articles, "content", row.content, id)
    \/ row.userId \notin DOMAIN users

\* the truth value JavaScript gives an optional number: undefined and 0
\* are both falsy
Truthy(n) == n # NOACTOR /\ n # 0

\* if (userId && article.userId !== userId)
NotOwner(row, actor) == Truthy(actor) /\ row.userId # actor

(***************************************************************************)
(* ArticleController.updateArticle / ArticleService.updateArticle          *)
(***************************************************************************)
updateArticleOutcome(id, patch, actor) ==
    IF UpdateLookup(articles, id) = NOID THEN "NotFound"
    ELSE IF NotOwner(articles[id], actor) THEN "Forbidden"
    ELSE IF /\ patch.title # NONE
            /\ patch.title # articles[id].title
            /\ findOne(articles, "title", patch.title, id) # {}
    THEN "DuplicateValue"
    ELSE IF ArticleUpdateRejected(id, ArticleUpdate(articles[id], patch))
    THEN "UniqueConstraintError"
    ELSE "ok"

updateArticle(id, patch, actor) ==
    /\ IF updateArticleOutcome(id, patch, actor) = "ok"
       THEN /\ articles' = [articles EXCEPT ![id] = ArticleUpdate(@, patch)]
       ELSE UNCHANGED articles
    /\ UNCHANGED <<users, nextUserId, nextArticleId, history, reqs>>

(***************************************************************************)
(* ArticleService.deleteArticle (soft delete)                              *)
(***************************************************************************)
deleteArticleOutcome(id, actor) ==
    IF DeleteLookup(articles, id) = NOID THEN "NotFound"
    ELSE IF NotOwner(articles[id], actor) THEN "Forbidden"
    ELSE "ok"

deleteArticle(id, actor) ==
    /\ IF deleteArticleOutcome(id, actor) = "ok"
       THEN /\ articles' = Destroy(articles, id)
       ELSE UNCHANGED articles
    /\ UNCHANGED <<users, nextUserId, nextArticleId, history, reqs>>

(***************************************************************************)
(* ArticleService.forceDeleteArticle (purge)                               *)
(***************************************************************************)
forceDeleteArticleOutcome(id) ==
    IF ForceDeleteLookup(articles, id) = NOID THEN "NotFound" ELSE "ok"

forceDeleteArticle(id) ==
    /\ IF forceDeleteArticleOutcome(id) = "ok"
       THEN /\ articles' = ForceDestroy(articles, id)
            /\ purgedArticles' = purgedArticles \cup {id}
       ELSE UNCHANGED <<articles, purgedArticles>>
    /\ UNCHANGED <<users, nextUserId, nextArticleId, purgedUsers, reqs>>

(***************************************************************************)
(* ArticleService.restoreArticle                                           *)
(***************************************************************************)
restoreArticleOutcome(id) ==
    IF RestoreLookup(articles, id) = NOID THEN "NotFound"
    ELSE IF articles[id].deletedAt = NULL THEN "NotDeleted"
    ELSE "ok"

restoreArticle(id) ==
    /\ IF restoreArticleOutcome(id) = "ok"
       THEN /\ articles' = Restore(articles, id)
       ELSE UNCHANGED articles
    /\ UNCHANGED <<users, nextUserId, nextArticleId, history, reqs>>

(***************************************************************************)
(* ArticleService.batchDeleteArticles                                      *)
(***************************************************************************)
\* whereConditions: the ids, and the owner when userId is truthy
ArticlesMatched(ids, actor) ==
    {a \in WhereIdIn(articles, ids) : Truthy(actor) => articles[a].userId = actor}

batchDeleteArticlesOutcome(ids, actor) == Cardinality(ArticlesMatched(ids, actor))

batchDeleteArticles(ids, actor) ==
    /\ LET matched == ArticlesMatched(ids, actor) IN
       /\ articles' = BulkDestroy(articles, matched)
    /\ UNCHANGED <<users, nextUserId, nextArticleId, history, reqs>>

(***************************************************************************)
(* The requests of the model.                                              *)
(***************************************************************************)
\* the body each title is posted with
ContentOf(title) == IF title = "T1" THEN "body1" ELSE "body2"

\* the body of a plain createArticle request
PlainBody(title, userId) ==
    [title |-> title, content |-> ContentOf(title), userId |-> userId,
     id |-> NOID, deletedAt |-> NULL]

\* the request bodies of POST /article: title, content and userId, and at
\* most one further column key
CreateBodies ==
    {b \in [title : Titles, content : Contents, userId : UserIds,
            id : ArticleIds \cup {NOID}, deletedAt : {NULL, NOW}] :
        /\ b.id = NOID \/ b.deletedAt = NULL
        /\ b.content = ContentOf(b.title)}

\* the request bodies of PUT /article/:id: one column key, or none
UpdateBodies ==
    {b \in [title : Titles \cup {NONE}, content : Contents \cup {NONE},
            userId : UserIds \cup {NOID}] :
        /\ b.userId = NOID \/ (b.title = NONE /\ b.content = NONE)
        /\ b.title = NONE \/ b.content = NONE}

\* currentUserId of a request body: absent, 0, or an account id
Actors == UserIds \cup {0, NOACTOR}

\* PUT /article/:id requests: any body without currentUserId, and the
\* bodies that retitle with any currentUserId
UpdateRequests ==
    {r \in UpdateBodies \X Actors : r[2] = NOACTOR \/ r[1].title # NONE}

\* the id lists of a batch delete: the ids up to some id, one past the
\* last possible id included, or one id alone
IdLists(ids) ==
    {1..n : n \in ids \cup {Cardinality(ids) + 1}} \cup {{i} : i \in ids}

(***************************************************************************)
(* The operations on documents.                                            *)
(***************************************************************************)
ArticleOps ==
    \/ \E body \in CreateBodies : createArticle(body)
    \/ \E id \in ArticleIds : getArticleById(id)
    \/ \E id \in ArticleIds, r \in UpdateRequests : updateArticle(id, r[1], r[2])
    \/ \E id \in ArticleIds, actor \in Actors : deleteArticle(id, actor)
    \/ \E id \in ArticleIds : forceDeleteArticle(id)
    \/ \E id \in ArticleIds : restoreArticle(id)
    \/ \E ids \in IdLists(ArticleIds), actor \in Actors :
          batchDeleteArticles(ids, actor)

(***************************************************************************)
(* The operations on accounts that move a row through its lifecycle.       *)
(***************************************************************************)
UserLifecycleOps ==
    \/ \E id \in UserIds : getUserById(id)
    \/ \E id \in UserIds : deleteUser(id)
    \/ \E id \in UserIds : forceDeleteUser(id)
    \/ \E id \in UserIds : restoreUser(id)
    \/ \E ids \in IdLists(UserIds) : batchDeleteUsers(ids)

(***************************************************************************)
(* Spec: both services, one request at a time, accounts registered with    *)
(* one credential and the default role.                                    *)
(***************************************************************************)
Next ==
    \/ \E u \in Usernames, e \in Emails : createUser(u, e, "Secret1A", NONE)
    \/ \E id \in UserIds, u \in Usernames \cup {NONE}, e \in Emails \cup {NONE} :
          updateUser(id, u, e, NONE, NONE)
    \/ \E id \in UserIds : updateUserRole(id, "user")
    \/ \E e \in Emails : validatePassword(e, plain("Secret1A"))
    \/ UserLifecycleOps
    \/ ArticleOps

Spec == Init /\ [][Next]_vars

(***************************************************************************)
(* SpecAccounts: the account service alone, one request at a time, with    *)
(* every credential and role input.                                        *)
(***************************************************************************)
NextAccounts ==
    \/ \E u \in Usernames, e \in Emails, p \in Plain, r \in Roles \cup {NONE} :
          createUser(u, e, p, r)
    \/ \E id \in UserIds, u \in Usernames \cup {NONE}, e \in Emails \cup {NONE},
          p \in Plain \cup {NONE}, r \in Roles \cup {NONE} :
          updateUser(id, u, e, p, r)
    \/ \E id \in UserIds, r \in Roles : updateUserRole(id, r)
    \/ \E e \in Emails, c \in Credentials : validatePassword(e, c)
    \/ UserLifecycleOps
    \/ \E e \in Emails : getUserByEmail(e)
    \/ \E u \in Usernames : getUserByUsername(u)

SpecAccounts == Init /\ [][NextAccounts]_vars

(***************************************************************************)
(* LIKE patterns of the datastore.                                         *)
(***************************************************************************)
\* text LIKE pattern: % stands for any run of characters, _ for any one
\* character, every other character for itself up to letter case
RECURSIVE Like(_, _)
Like(t, p) ==
    IF p = <<>> THEN t = <<>>
    ELSE IF Head(p) = "%"
         THEN Like(t, Tail(p)) \/ (t # <<>> /\ Like(Tail(t), p))
         ELSE /\ t # <<>>
              /\ Head(p) = "_" \/ Weight(Head(p)) = Weight(Head(t))
              /\ Like(Tail(t), Tail(p))

\* column LIKE '%keyword%', the keyword pasted between the two wildcards
LikeContains(value, keyword) ==
    Like(Chars(value), <<"%">> \o Chars(keyword) \o <<"%">>)

(***************************************************************************)
(* The listing queries.  findAndCountAll runs SELECT ... WHERE ... ORDER BY *)
(* sortBy sortOrder LIMIT offset, limit and a COUNT over the same WHERE.   *)
(***************************************************************************)
\* userId of listing options that carry none (undefined)
NOOWNER == -1

\* the totalPages that is no finite number: Math.ceil of a division by 0
NOTFINITE == -1

\* the place the collation gives a string among the strings of the model
Rank(s) ==
    CASE s = "a@x.com" -> 1 [] s = "A@X.COM" -> 1 [] s = "alice" -> 2
      [] s = "b@x.com" -> 3 [] s = "bob" -> 4 [] s = "body1" -> 5
      [] s = "body2" -> 6 [] s = "T1" -> 7 [] s = "T2" -> 8 [] OTHER -> 0

\* the columns of the two tables
UserColumns ==
    {"id", "username", "email", "password", "role",
     "createdAt", "updatedAt", "deletedAt"}

ArticleColumns ==
    {"id", "title", "content", "userId", "createdAt", "updatedAt", "deletedAt"}

\* the columns the model can order by: the primary key, createdAt (rows
\* get their id from AUTO_INCREMENT and their createdAt from the clock of
\* the same INSERT, so createdAt grows with id) and the string columns
Sortable == {"id", "createdAt", "username", "email", "title", "content"}

SortKey(table, i, sortBy) ==
    IF sortBy \in {"id", "createdAt"} THEN i ELSE Rank(table[i][sortBy])

\* ORDER BY sortBy sortOrder over the rows ids: the sequence of their ids
Ordered(table, ids, sortBy, sortOrder) ==
    LET before(j, i) ==
            IF sortOrder = "ASC"
            THEN SortKey(table, j, sortBy) < SortKey(table, i, sortBy)
            ELSE SortKey(table, j, sortBy) > SortKey(table, i, sortBy)
        place(i) == 1 + Cardinality({j \in ids : before(j, i)})
    IN [n \in 1..Cardinality(ids) |-> CHOOSE i \in ids : place(i) = n]

\* LIMIT offset, limit
Slice(seq, offset, limit) ==
    SubSeq(seq, offset + 1,
           IF offset + limit < Len(seq) THEN offset + limit ELSE Len(seq))

\* the query MySQL turns down: a negative LIMIT or OFFSET, a column the
\* table does not have, a direction that is none
QueryRejected(columns, sortBy, sortOrder, offset, limit) ==
    \/ offset < 0
    \/ limit < 0
    \/ sortBy \notin columns
    \/ sortOrder \notin {"ASC", "DESC"}

\* Math.ceil(total / limit)
TotalPagesFloor(total, limit) ==
    IF limit = 0 THEN NOTFINITE ELSE total \div limit

TotalPages(total, limit) ==
    IF limit = 0 THEN NOTFINITE
    ELSE IF total % limit = 0 THEN total \div limit
    ELSE total \div limit + 1

\* the answer of a listing.  ListingStatus: whether findAndCountAll
\* throws; ListingRows: rows, the page of the ordered SELECT; ListingMeta:
\* the pagination object built from count and the options
\* const offset = (page - 1) * limit
Offset(o) == (o.page - 1) * o.limit

ListingStatus(columns, o) ==
    IF QueryRejected(columns, o.sortBy, o.sortOrder, Offset(o), o.limit)
    THEN "StorageFailure" ELSE "ok"

ListingRows(table, matched, o) ==
    Slice(Ordered(table, matched, o.sortBy, o.sortOrder), Offset(o), o.limit)

ListingMeta(matched, o) ==
    [total |-> Cardinality(matched),
     page |-> o.page,
     limit |-> o.limit,
     totalPages |-> TotalPages(Cardinality(matched), o.limit)]

\* the options a service destructures, the defaults filled in
ArticleDefaults ==
    [page |-> 1, limit |-> 10, userId |-> NOOWNER, title |-> NONE,
     sortBy |-> "createdAt", sortOrder |-> "DESC", includeDeleted |-> FALSE]

UserDefaults ==
    [page |-> 1, limit |-> 10, search |-> NONE, role |-> NONE,
     sortBy |-> "createdAt", sortOrder |-> "DESC"]

(***************************************************************************)
(* UserService.getUsers.  The options have no includeDeleted key: the      *)
(* finder always runs with the soft-delete filter.                         *)
(***************************************************************************)
getUsersWhere(o) ==
    {i \in Visible(users, TRUE) :
        /\ o.search # NONE =>
              \/ LikeContains(users[i].username, o.search)
              \/ LikeContains(users[i].email, o.search)
        /\ o.role # NONE => users[i].role = o.role}

getUsersStatus(o) == ListingStatus(UserColumns, o)

getUsersReturn(o) == ListingRows(users, getUsersWhere(o), o)

getUsersPagination(o) == ListingMeta(getUsersWhere(o), o)

(***************************************************************************)
(* ArticleService.getArticles                                              *)
(***************************************************************************)
getArticlesWhere(o) ==
    {a \in Visible(articles, ~o.includeDeleted) :
        /\ Truthy(o.userId) => articles[a].userId = o.userId
        /\ o.title # NONE => LikeContains(articles[a].title, o.title)}

getArticlesStatus(o) == ListingStatus(ArticleColumns, o)

getArticlesReturn(o) == ListingRows(articles, getArticlesWhere(o), o)

getArticlesPagination(o) == ListingMeta(getArticlesWhere(o), o)

(***************************************************************************)
(* ArticleService.getArticlesByUserId: getArticles({...options, userId})   *)
(***************************************************************************)
ByUserIdOptions(userId, o) == [o EXCEPT !.userId = userId]

getArticlesByUserIdReturn(userId, o) ==
    getArticlesReturn(ByUserIdOptions(userId, o))

(***************************************************************************)
(* ArticleService.searchArticles: no includeDeleted option is read         *)
(***************************************************************************)
searchArticlesWhere(keyword, o) ==
    {a \in Visible(articles, TRUE) :
        /\ \/ LikeContains(articles[a].title, keyword)
           \/ LikeContains(articles[a].content, keyword)
        /\ Truthy(o.userId) => articles[a].userId = o.userId}

searchArticlesStatus(o) == ListingStatus(ArticleColumns, o)

searchArticlesReturn(keyword, o) ==
    ListingRows(articles, searchArticlesWhere(keyword, o), o)

searchArticlesPagination(keyword, o) ==
    ListingMeta(searchArticlesWhere(keyword, o), o)

(***************************************************************************)
(* ArticleController: the query string of GET /article, /article/search    *)
(* and /article/user/:userId turned into options.  A numeric parameter is  *)
(* the empty set when the query string does not carry it and {n} when it   *)
(* carries the digits of n; the checks of the router are run, but these    *)
(* three handlers never look at their result.                              *)
(***************************************************************************)
\* req.query.x ? parseInt(req.query.x) : otherwise
ParseInt(raw, otherwise) ==
    IF raw = {} THEN otherwise ELSE CHOOSE n \in raw : TRUE

\* req.query.x || otherwise
OrElse(raw, otherwise) == IF raw # NONE THEN raw ELSE otherwise

getArticlesOptions(q) ==
    [page |-> ParseInt(q.page, 1),
     limit |-> ParseInt(q.limit, 10),
     userId |-> ParseInt(q.userId, NOOWNER),
     title |-> q.title,
     sortBy |-> OrElse(q.sortBy, "createdAt"),
     sortOrder |-> OrElse(q.sortOrder, "DESC"),
     includeDeleted |-> (q.includeDeleted = "true")]

\* the options of /article/user/:userId carry no userId and no
\* includeDeleted key; the service destructures its defaults
getArticlesByUserIdOptions(q) ==
    [getArticlesOptions(q) EXCEPT !.userId = NOOWNER, !.includeDeleted = FALSE]

\* the options of /article/search carry no title and no includeDeleted key
searchArticlesOptions(q) ==
    [getArticlesOptions(q) EXCEPT !.title = NONE, !.includeDeleted = FALSE]

Answered(status) == status \in {"ok", "StorageFailure"}

getArticles(q) ==
    /\ Answered(getArticlesStatus(getArticlesOptions(q)))
    /\ UNCHANGED vars

getArticlesByUserId(userId, q) ==
    /\ Answered(getArticlesStatus(
           ByUserIdOptions(userId, getArticlesByUserIdOptions(q))))
    /\ UNCHANGED vars

searchArticles(keyword, q) ==
    /\ keyword # NONE
    /\ Answered(searchArticlesStatus(searchArticlesOptions(q)))
    /\ UNCHANGED vars

getUsers(o) ==
    /\ Answered(getUsersStatus(o))
    /\ UNCHANGED vars

(***************************************************************************)
(* The listing requests of the model: query strings that differ from the   *)
(* empty one in their page, in their sort, in their filter, or in all of   *)
(* them with values the router accepts.                                    *)
(***************************************************************************)
Given(ns) == {{}} \cup {{n} : n \in ns}

RawPages == Given(-1..MaxPage)
RawLimits == Given(-1..MaxLimit)
RawOwners == Given(0..MaxUsers)
Keywords == {"t", "1", "o", "_", "zz"}
SortNames == {NONE, "id", "title", "createdAt", "updatedAt", "content", "nosuch"}
SortOrders == {NONE, "ASC", "DESC"}

NoQuery ==
    [page |-> {}, limit |-> {}, userId |-> {}, title |-> NONE,
     sortBy |-> NONE, sortOrder |-> NONE, includeDeleted |-> NONE]

PageQueries ==
    {[NoQuery EXCEPT !.page = p, !.limit = l] : p \in RawPages, l \in RawLimits}

SortQueries ==
    {[NoQuery EXCEPT !.sortBy = s, !.sortOrder = d] :
        s \in SortNames, d \in SortOrders}

FilterQueries ==
    {[NoQuery EXCEPT !.userId = u, !.title = t, !.includeDeleted = d] :
        u \in RawOwners, t \in Keywords \cup {NONE}, d \in {NONE, "true"}}

\* the requests the checks of the router let through, with a userId of 0
\* besides
ListQueries ==
    {[NoQuery EXCEPT !.page = p, !.limit = l, !.userId = u,
                     !.sortBy = s, !.sortOrder = d] :
        p \in Given(1..MaxPage), l \in Given(1..MaxLimit), u \in RawOwners,
        s \in {NONE, "id", "title"}, d \in {NONE, "ASC"}}

\* the options UserService.getUsers is called with
UserOptions ==
    {[UserDefaults EXCEPT !.page = p, !.limit = l, !.search = k, !.role = r,
                          !.sortBy = s, !.sortOrder = d] :
        p \in 1..MaxPage, l \in 1..MaxLimit, k \in {NONE, "o"},
        r \in Roles \cup {NONE}, s \in {"createdAt", "username"},
        d \in {"DESC", "ASC"}}

(***************************************************************************)
(* UserService.getUserStats and ArticleService.getArticleStats.  Model      *)
(* .count runs under the soft-delete filter unless paranoid is false.      *)
(***************************************************************************)
\* Model.count({where, paranoid}): where is the set of ids the clause keeps
Count(table, paranoid, where) == Cardinality(Visible(table, paranoid) \cap where)

WhereDeletedAtNull(table) == {i \in DOMAIN table : table[i].deletedAt = NULL}

WhereRole(role) == {i \in DOMAIN users : users[i].role = role}

WhereOwner(userId) ==
    {a \in DOMAIN articles : Truthy(userId) => articles[a].userId = userId}

getUserStatsReturn ==
    [total |-> Count(users, TRUE, DOMAIN users),
     active |-> Count(users, TRUE, WhereDeletedAtNull(users)),
     deleted |-> Count(users, FALSE, DOMAIN users \ WhereDeletedAtNull(users)),
     admins |-> Count(users, TRUE, WhereRole("admin")),
     regular |-> Count(users, TRUE, WhereRole("user"))]

getUserStats ==
    /\ getUserStatsReturn.total \in Nat
    /\ UNCHANGED vars

getArticleStatsReturn(userId) ==
    LET total == Count(articles, TRUE, WhereOwner(userId))
        totalWithDeleted == Count(articles, FALSE, WhereOwner(userId))
    IN [total |-> total,
        active |-> total,
        deleted |-> totalWithDeleted - total]

\* ArticleController.getArticleStats: q is the userId of the query, if any
getArticleStats(q) ==
    /\ getArticleStatsReturn(ParseInt(q, NOOWNER)).total \in Nat
    /\ UNCHANGED vars

(***************************************************************************)
(* SpecQuery: the listings over a store built by plain requests, one       *)
(* request at a time.                                                      *)
(***************************************************************************)
NextQuery ==
    \/ \E u \in Usernames, e \in Emails, r \in {NONE, "admin"} :
          createUser(u, e, "Secret1A", r)
    \/ UserLifecycleOps
    \/ \E t \in Titles, o \in UserIds : createArticle(PlainBody(t, o))
    \/ \E id \in ArticleIds : getArticleById(id)
    \/ \E id \in ArticleIds : deleteArticle(id, NOACTOR)
    \/ \E id \in ArticleIds : restoreArticle(id)
    \/ \E id \in ArticleIds : forceDeleteArticle(id)
    \/ \E e \in Emails : getUserByEmail(e)
    \/ \E u \in Usernames : getUserByUsername(u)
    \/ \E r \in Roles \cup {NONE} : getUsers([UserDefaults EXCEPT !.role = r])
    \/ \E q \in PageQueries \cup SortQueries : getArticles(q)
    \/ \E userId \in 0..MaxUsers : getArticlesByUserId(userId, NoQuery)
    \/ \E keyword \in Keywords : searchArticles(keyword, NoQuery)
    \/ getUserStats
    \/ \E q \in RawOwners : getArticleStats(q)

SpecQuery == Init /\ [][NextQuery]_vars

(***************************************************************************)
(* SpecCase: the account service with emails that differ in letter case    *)
(* only, one request at a time.                                            *)
(***************************************************************************)
CaseEmails == Emails \cup {"A@X.COM"}

NextCase ==
    \/ \E u \in Usernames, e \in CaseEmails, r \in {NONE, "admin"} :
          createUser(u, e, "Secret1A", r)
    \/ \E id \in UserIds, u \in Usernames \cup {NONE}, e \in CaseEmails :
          updateUser(id, u, e, NONE, NONE)
    \/ \E id \in UserIds : deleteUser(id)
    \/ \E id \in UserIds : restoreUser(id)
    \/ \E id \in UserIds : forceDeleteUser(id)
    \/ \E e \in CaseEmails : getUserByEmail(e)

SpecCase == Init /\ [][NextCase]_vars

(***************************************************************************)
(* SpecRace: the write paths of createUser, createArticle and updateUser   *)
(* as the awaits of the source split them, served on two connections.      *)
(* Every await of a finder or of a write is one step; reqs[p] holds the    *)
(* locals of the request connection p is serving.                          *)
(***************************************************************************)
InFlight(p) == reqs[p].pc \notin {"idle", "done"}

Other(p) == CHOOSE q \in Procs : q # p

\* a connection takes a request when it is serving none
Served == reqs["c1"].n + reqs["c2"].n

CanBegin(p) == ~InFlight(p) /\ Served < MaxReqs

\* connection p takes a new request.  peers counts the requests of the
\* other connection that were in flight at some moment of this one
\* (2 stands for two or more).
Begun(p, req) ==
    LET q == Other(p)
        met == IF InFlight(q) THEN 1 ELSE 0
    IN
    [reqs EXCEPT ![p] = [req EXCEPT !.n = reqs[p].n + 1, !.peers = met],
                 ![q].peers = IF @ + met > 2 THEN 2 ELSE @ + met]

Finish(p, res) ==
    reqs' = [reqs EXCEPT ![p].pc = "done", ![p].res = res, ![p].snap = NOROW]

Goto(p, pc) == reqs' = [reqs EXCEPT ![p].pc = pc]

At(p, op, pc) == reqs[p].op = op /\ reqs[p].pc = pc

(***************************************************************************)
(* UserService.createUser, await by await                                  *)
(***************************************************************************)
createUserBegin(p, username, email) ==
    /\ CanBegin(p)
    /\ reqs' = Begun(p, [Idle EXCEPT !.op = "createUser", !.pc = "checkEmail",
                                 !.username = username, !.email = email])
    /\ UNCHANGED <<tables, history>>

createUserCheckEmail(p) ==
    /\ At(p, "createUser", "checkEmail")
    /\ IF EmailTaken(reqs[p].email)
       THEN Finish(p, "DuplicateValue")
       ELSE Goto(p, "checkUsername")
    /\ UNCHANGED <<tables, history>>

createUserCheckUsername(p) ==
    /\ At(p, "createUser", "checkUsername")
    /\ IF UsernameTaken(reqs[p].username)
       THEN Finish(p, "DuplicateValue")
       ELSE Goto(p, "insert")
    /\ UNCHANGED <<tables, history>>

createUserInsert(p) ==
    /\ At(p, "createUser", "insert")
    /\ nextUserId <= MaxUsers
    /\ IF UserInsertRejected(reqs[p].username, reqs[p].email)
       THEN /\ Finish(p, "UniqueConstraintError")
            /\ UNCHANGED <<users, nextUserId>>
       ELSE /\ users' = UserCreate(reqs[p].username, reqs[p].email,
                                   hash(plain("Secret1A")), "user")
            /\ nextUserId' = nextUserId + 1
            /\ reqs' = [reqs EXCEPT ![p].pc = "done", ![p].res = "ok",
                                    ![p].id = nextUserId]
    /\ UNCHANGED <<articles, nextArticleId, history>>

(***************************************************************************)
(* ArticleService.createArticle, await by await                            *)
(***************************************************************************)
RaceBody(p) ==
    [title |-> reqs[p].title, content |-> ContentOf(reqs[p].title),
     userId |-> reqs[p].userId, id |-> NOID, deletedAt |-> NULL]

createArticleBegin(p, title, userId) ==
    /\ CanBegin(p)
    /\ reqs' = Begun(p, [Idle EXCEPT !.op = "createArticle", !.pc = "findOwner",
                                 !.title = title, !.userId = userId])
    /\ UNCHANGED <<tables, history>>

createArticleFindOwner(p) ==
    /\ At(p, "createArticle", "findOwner")
    /\ IF OwnerMissing(reqs[p].userId)
       THEN Finish(p, "ParentNotFound")
       ELSE Goto(p, "checkTitle")
    /\ UNCHANGED <<tables, history>>

createArticleCheckTitle(p) ==
    /\ At(p, "createArticle", "checkTitle")
    /\ IF TitleTaken(reqs[p].title)
       THEN Finish(p, "DuplicateValue")
       ELSE Goto(p, "insert")
    /\ UNCHANGED <<tables, history>>

createArticleInsert(p) ==
    /\ At(p, "createArticle", "insert")
    /\ nextArticleId <= MaxArticles
    /\ IF ArticleInsertRejected(RaceBody(p))
       THEN /\ Finish(p, "UniqueConstraintError")
            /\ UNCHANGED <<articles, nextArticleId>>
       ELSE /\ articles' = ArticleCreate(RaceBody(p))
            /\ nextArticleId' = nextArticleId + 1
            /\ reqs' = [reqs EXCEPT ![p].pc = "done", ![p].res = "ok",
                                    ![p].id = nextArticleId]
    /\ UNCHANGED <<users, nextUserId, history>>

(***************************************************************************)
(* UserService.updateUser, await by await.  The instance read by findByPk  *)
(* is kept in snap; user.update writes the keys whose value differs from   *)
(* the instance, by primary key.                                           *)
(***************************************************************************)
updateUserBegin(p, id, username, email) ==
    /\ CanBegin(p)
    /\ reqs' = Begun(p, [Idle EXCEPT !.op = "updateUser", !.pc = "find", !.id = id,
                                 !.username = username, !.email = email])
    /\ UNCHANGED <<tables, history>>

updateUserFind(p) ==
    /\ At(p, "updateUser", "find")
    /\ IF UpdateLookup(users, reqs[p].id) = NOID
       THEN Finish(p, "NotFound")
       ELSE reqs' = [reqs EXCEPT
                       ![p].pc = "checkEmail",
                       ![p].snap = [username |-> users[reqs[p].id].username,
                                    email |-> users[reqs[p].id].email]]
    /\ UNCHANGED <<tables, history>>

updateUserCheckEmail(p) ==
    /\ At(p, "updateUser", "checkEmail")
    /\ IF /\ reqs[p].email # NONE
          /\ reqs[p].email # reqs[p].snap.email
          /\ findOne(users, "email", reqs[p].email, reqs[p].id) # {}
       THEN Finish(p, "DuplicateValue")
       ELSE Goto(p, "checkUsername")
    /\ UNCHANGED <<tables, history>>

updateUserCheckUsername(p) ==
    /\ At(p, "updateUser", "checkUsername")
    /\ IF /\ reqs[p].username # NONE
          /\ reqs[p].username # reqs[p].snap.username
          /\ findOne(users, "username", reqs[p].username, reqs[p].id) # {}
       THEN Finish(p, "DuplicateValue")
       ELSE Goto(p, "write")
    /\ UNCHANGED <<tables, history>>

\* the keys user.update finds changed against the instance
Changed(given, old) == IF given # NONE /\ given # old THEN given ELSE NONE

updateUserWrite(p) ==
    /\ At(p, "updateUser", "write")
    /\ LET id == reqs[p].id
           username == Changed(reqs[p].username, reqs[p].snap.username)
           email == Changed(reqs[p].email, reqs[p].snap.email)
       IN
       IF id \notin DOMAIN users
       THEN /\ Goto(p, "reread")
            /\ UNCHANGED users
       ELSE LET row == UserUpdate(users[id], username, email, NOPW, NONE) IN
            IF UserUpdateRejected(id, row)
            THEN /\ Finish(p, "UniqueConstraintError")
                 /\ UNCHANGED users
            ELSE /\ users' = [users EXCEPT ![id] = row]
                 /\ Goto(p, "reread")
    /\ UNCHANGED <<articles, nextUserId, nextArticleId, history>>

updateUserReread(p) ==
    /\ At(p, "updateUser", "reread")
    /\ IF findByPk(users, reqs[p].id, TRUE) = NOID
       THEN Finish(p, "null")
       ELSE Finish(p, "ok")
    /\ UNCHANGED <<tables, history>>

\* the patches of SpecRace: one key
RacePatches ==
    {r \in (Usernames \cup {NONE}) \X (Emails \cup {NONE}) :
        (r[1] = NONE) # (r[2] = NONE)}

NextRace ==
    \/ \E p \in Procs, u \in Usernames, e \in Emails : createUserBegin(p, u, e)
    \/ \E p \in Procs : createUserCheckEmail(p)
    \/ \E p \in Procs : createUserCheckUsername(p)
    \/ \E p \in Procs : createUserInsert(p)
    \/ \E p \in Procs, t \in Titles, o \in UserIds : createArticleBegin(p, t, o)
    \/ \E p \in Procs : createArticleFindOwner(p)
    \/ \E p \in Procs : createArticleCheckTitle(p)
    \/ \E p \in Procs : createArticleInsert(p)
    \/ \E p \in Procs, id \in UserIds, r \in RacePatches :
          updateUserBegin(p, id, r[1], r[2])
    \/ \E p \in Procs : updateUserFind(p)
    \/ \E p \in Procs : updateUserCheckEmail(p)
    \/ \E p \in Procs : updateUserCheckUsername(p)
    \/ \E p \in Procs : updateUserWrite(p)
    \/ \E p \in Procs : updateUserReread(p)

SpecRace == Init /\ [][NextRace]_vars

(***************************************************************************)
(* UserService.forceDeleteUser, await by await: the lookup without the     *)
(* soft-delete filter, then DELETE FROM users WHERE id = ?, which removes  *)
(* the row if it is still there, and with it the documents it owns.        *)
(***************************************************************************)
forceDeleteUserBegin(p, id) ==
    /\ CanBegin(p)
    /\ reqs' = Begun(p, [Idle EXCEPT !.op = "forceDeleteUser", !.pc = "find",
                                 !.id = id])
    /\ UNCHANGED <<tables, history>>

forceDeleteUserFind(p) ==
    /\ At(p, "forceDeleteUser", "find")
    /\ IF ForceDeleteLookup(users, reqs[p].id) = NOID
       THEN Finish(p, "NotFound")
       ELSE Goto(p, "destroy")
    /\ UNCHANGED <<tables, history>>

forceDeleteUserDestroy(p) ==
    /\ At(p, "forceDeleteUser", "destroy")
    /\ LET id == reqs[p].id IN
       IF id \in DOMAIN users
       THEN /\ users' = ForceDestroy(users, id)
            /\ articles' = CascadeDelete(id)
            /\ purgedUsers' = purgedUsers \cup {id}
            /\ purgedArticles' = purgedArticles \cup OwnedBy(id)
       ELSE UNCHANGED <<users, articles, history>>
    /\ Finish(p, "ok")
    /\ UNCHANGED <<nextUserId, nextArticleId>>

(***************************************************************************)
(* SpecOwnerRace: two connections serving createUser, createArticle and    *)
(* forceDeleteUser requests side by side, await by await.                  *)
(***************************************************************************)
NextOwnerRace ==
    \/ \E p \in Procs, u \in Usernames, e \in Emails : createUserBegin(p, u, e)
    \/ \E p \in Procs : createUserCheckEmail(p)
    \/ \E p \in Procs : createUserCheckUsername(p)
    \/ \E p \in Procs : createUserInsert(p)
    \/ \E p \in Procs, t \in Titles, o \in UserIds : createArticleBegin(p, t, o)
    \/ \E p \in Procs : createArticleFindOwner(p)
    \/ \E p \in Procs : createArticleCheckTitle(p)
    \/ \E p \in Procs : createArticleInsert(p)
    \/ \E p \in Procs, id \in UserIds : forceDeleteUserBegin(p, id)
    \/ \E p \in Procs : forceDeleteUserFind(p)
    \/ \E p \in Procs : forceDeleteUserDestroy(p)

SpecOwnerRace == Init /\ [][NextOwnerRace]_vars

(***************************************************************************)
(* UserService.deleteUser, await by await: the lookup among the Active     *)
(* accounts, then the UPDATE by primary key that stamps deletedAt on the   *)
(* row if it is still there.                                               *)
(***************************************************************************)
deleteUserBegin(p, id) ==
    /\ CanBegin(p)
    /\ reqs' = Begun(p, [Idle EXCEPT !.op = "deleteUser", !.pc = "find",
                                 !.id = id])
    /\ UNCHANGED <<tables, history>>

deleteUserFind(p) ==
    /\ At(p, "deleteUser", "find")
    /\ IF DeleteLookup(users, reqs[p].id) = NOID
       THEN Finish(p, "NotFound")
       ELSE Goto(p, "destroy")
    /\ UNCHANGED <<tables, history>>

deleteUserDestroy(p) ==
    /\ At(p, "deleteUser", "destroy")
    /\ LET id == reqs[p].id IN
       IF id \in DOMAIN users
       THEN users' = Destroy(users, id)
       ELSE UNCHANGED users
    /\ Finish(p, "ok")
    /\ UNCHANGED <<articles, nextUserId, nextArticleId, history>>

(***************************************************************************)
(* SpecUpdateRace: two connections serving createUser, updateUser,         *)
(* deleteUser and forceDeleteUser requests side by side, await by await.   *)
(***************************************************************************)
NextUpdateRace ==
    \/ \E p \in Procs, u \in Usernames, e \in Emails : createUserBegin(p, u, e)
    \/ \E p \in Procs : createUserCheckEmail(p)
    \/ \E p \in Procs : createUserCheckUsername(p)
    \/ \E p \in Procs : createUserInsert(p)
    \/ \E p \in Procs, id \in UserIds, r \in RacePatches :
          updateUserBegin(p, id, r[1], r[2])
    \/ \E p \in Procs : updateUserFind(p)
    \/ \E p \in Procs : updateUserCheckEmail(p)
    \/ \E p \in Procs : updateUserCheckUsername(p)
    \/ \E p \in Procs : updateUserWrite(p)
    \/ \E p \in Procs : updateUserReread(p)
    \/ \E p \in Procs, id \in UserIds : deleteUserBegin(p, id)
    \/ \E p \in Procs : deleteUserFind(p)
    \/ \E p \in Procs : deleteUserDestroy(p)
    \/ \E p \in Procs, id \in UserIds : forceDeleteUserBegin(p, id)
    \/ \E p \in Procs : forceDeleteUserFind(p)
    \/ \E p \in Procs : forceDeleteUserDestroy(p)

SpecUpdateRace == Init /\ [][NextUpdateRace]_vars

(***************************************************************************)
(* ArticleService.getArticleStats, query by query: Promise.all sends the   *)
(* two counts, which the datastore answers one at a time in either order;  *)
(* the subtraction is made when both have answered.  seen records, for     *)
(* the call in flight, the documents that were SoftDeleted at some moment  *)
(* since it began.                                                         *)
(***************************************************************************)
SoftDeletedIds(table) == {a \in DOMAIN table : table[a].deletedAt # NULL}

getArticleStatsBegin(p, userId) ==
    /\ CanBegin(p)
    /\ reqs' = Begun(p, [Idle EXCEPT !.op = "getArticleStats", !.pc = "count",
                                 !.userId = userId,
                                 !.seen = SoftDeletedIds(articles)])
    /\ UNCHANGED <<tables, history>>

getArticleStatsCountActive(p) ==
    /\ At(p, "getArticleStats", "count")
    /\ reqs[p].total = NOTREAD
    /\ reqs' = [reqs EXCEPT ![p].total =
                   Count(articles, TRUE, WhereOwner(reqs[p].userId))]
    /\ UNCHANGED <<tables, history>>

getArticleStatsCountAll(p) ==
    /\ At(p, "getArticleStats", "count")
    /\ reqs[p].totalWithDeleted = NOTREAD
    /\ reqs' = [reqs EXCEPT ![p].totalWithDeleted =
                   Count(articles, FALSE, WhereOwner(reqs[p].userId))]
    /\ UNCHANGED <<tables, history>>

\* const deleted = totalWithDeleted - total
StatsDeleted(p) == reqs[p].totalWithDeleted - reqs[p].total

getArticleStatsResolve(p) ==
    /\ At(p, "getArticleStats", "count")
    /\ reqs[p].total # NOTREAD
    /\ reqs[p].totalWithDeleted # NOTREAD
    /\ Finish(p, "ok")
    /\ UNCHANGED <<tables, history>>

\* the getArticleStats calls in flight see the table a write leaves
Witnessed(after) ==
    [p \in Procs |->
        IF reqs[p].op = "getArticleStats" /\ InFlight(p)
        THEN [reqs[p] EXCEPT !.seen = @ \cup SoftDeletedIds(after)]
        ELSE reqs[p]]

\* deleteArticle and restoreArticle served while the counts are out: each
\* makes one write
deleteArticleMeanwhile(id, actor) ==
    /\ LET after == IF deleteArticleOutcome(id, actor) = "ok"
                    THEN Destroy(articles, id) ELSE articles
       IN articles' = after /\ reqs' = Witnessed(after)
    /\ UNCHANGED <<users, nextUserId, nextArticleId, history>>

restoreArticleMeanwhile(id) ==
    /\ LET after == IF restoreArticleOutcome(id) = "ok"
                    THEN Restore(articles, id) ELSE articles
       IN articles' = after /\ reqs' = Witnessed(after)
    /\ UNCHANGED <<users, nextUserId, nextArticleId, history>>

(***************************************************************************)
(* SpecStatsRace: getArticleStats served beside createUser, createArticle, *)
(* deleteArticle, restoreArticle and forceDeleteArticle.                   *)
(***************************************************************************)
NextStatsRace ==
    \/ \E p \in Procs, u \in Usernames, e \in Emails : createUserBegin(p, u, e)
    \/ \E p \in Procs : createUserCheckEmail(p)
    \/ \E p \in Procs : createUserCheckUsername(p)
    \/ \E p \in Procs : createUserInsert(p)
    \/ \E p \in Procs, t \in Titles, o \in UserIds : createArticleBegin(p, t, o)
    \/ \E p \in Procs : createArticleFindOwner(p)
    \/ \E p \in Procs : createArticleCheckTitle(p)
    \/ \E p \in Procs : createArticleInsert(p)
    \/ \E p \in Procs, o \in UserIds \cup {NOID} : getArticleStatsBegin(p, o)
    \/ \E p \in Procs : getArticleStatsCountActive(p)
    \/ \E p \in Procs : getArticleStatsCountAll(p)
    \/ \E p \in Procs : getArticleStatsResolve(p)
    \/ \E id \in ArticleIds, actor \in Actors : deleteArticleMeanwhile(id, actor)
    \/ \E id \in ArticleIds : restoreArticleMeanwhile(id)
    \/ \E id \in ArticleIds : forceDeleteArticle(id)

SpecStatsRace == Init /\ [][NextStatsRace]_vars

(***************************************************************************)
(* Vocabulary of the properties                                            *)
(***************************************************************************)
Exists(table, id) == id \in DOMAIN table

IsActive(table, id) == Exists(table, id) /\ table[id].deletedAt = NULL

IsSoftDeleted(table, id) == Exists(table, id) /\ table[id].deletedAt # NULL

Held(table, field, value) == \E i \in DOMAIN table : table[i][field] = value

NoTwo(table, field) ==
    \A i, j \in DOMAIN table : i # j => table[i][field] # table[j][field]

(***************************************************************************)
(* C1: no two existing records of one kind, Active or SoftDeleted, share a *)
(* handle, an email or a title; a create that reuses the value of a        *)
(* SoftDeleted record never leaves a second record with that value.        *)
(***************************************************************************)
UniqueAmongExisting ==
    /\ NoTwo(users, "username")
    /\ NoTwo(users, "email")
    /\ NoTwo(articles, "title")

\* C1, its case: a create that reuses the values of a SoftDeleted account
\* and one that reuses the title of a SoftDeleted document get past the
\* finders and are stopped at the table
UniqueAmongExistingWitness ==
    /\ \E i \in DOMAIN users :
          /\ IsSoftDeleted(users, i)
          /\ createUserOutcome(users[i].username, users[i].email)
                = "UniqueConstraintError"
    /\ \E a \in DOMAIN articles, o \in UserIds :
          /\ IsSoftDeleted(articles, a)
          /\ createArticleOutcome(PlainBody(articles[a].title, o))
                = "UniqueConstraintError"

(***************************************************************************)
(* C2 (SpecRace): when the requests two connections serve at the same time *)
(* write the same unique value to different records, at most one of them   *)
(* succeeds, and the tables never hold two records with one value.         *)
(***************************************************************************)
Succeeded(p) == reqs[p].pc = "done" /\ reqs[p].res = "ok"

\* the two requests were in flight together, and with no other request
Raced(p, q) == p # q /\ reqs[p].peers = 1 /\ reqs[q].peers = 1

\* the unique values a request asks to write
Asked(p) ==
    {w \in {<<f, reqs[p][f]>> : f \in {"username", "email", "title"}} :
        w[2] # NONE}

OneWriterWins ==
    /\ NoTwo(users, "username")
    /\ NoTwo(users, "email")
    /\ NoTwo(articles, "title")
    /\ \A p, q \in Procs :
          Raced(p, q) /\ Asked(p) \cap Asked(q) # {}
              /\ Succeeded(p) /\ Succeeded(q)
          => reqs[p].id = reqs[q].id

\* C2, its case: two requests in flight together asked for one value, both
\* got past the finders, one wrote it and the table refused the other
OneWriterWinsWitness ==
    \E p, q \in Procs :
        /\ Raced(p, q)
        /\ Asked(p) \cap Asked(q) # {}
        /\ Succeeded(p)
        /\ reqs[q].pc = "done"
        /\ reqs[q].res = "UniqueConstraintError"

(***************************************************************************)
(* C3: the uniqueness check of create answers DuplicateValue whenever a    *)
(* record in any lifecycle state, SoftDeleted included, holds the value.   *)
(***************************************************************************)
GuardSeesEveryRecord ==
    /\ \A u \in Usernames, e \in Emails :
          Held(users, "username", u) \/ Held(users, "email", e)
          => createUserOutcome(u, e) = "DuplicateValue"
    /\ \A t \in Titles, o \in UserIds :
          Held(articles, "title", t) /\ IsActive(users, o)
          => createArticleOutcome(PlainBody(t, o)) = "DuplicateValue"

(***************************************************************************)
(* C4: an identity moves only from unborn to Active (create), from Active  *)
(* to SoftDeleted, from SoftDeleted to Active, and from Active or          *)
(* SoftDeleted to Purged; nothing leaves Purged; update, role update,      *)
(* authenticate and the reads move nothing.                                *)
(***************************************************************************)
Life(table, purged, id) ==
    IF id \in DOMAIN table
    THEN IF table[id].deletedAt = NULL THEN "Active" ELSE "SoftDeleted"
    ELSE IF id \in purged THEN "Purged" ELSE "Unborn"

Transitions ==
    {<<"Unborn", "Active">>, <<"Active", "SoftDeleted">>,
     <<"SoftDeleted", "Active">>, <<"Active", "Purged">>,
     <<"SoftDeleted", "Purged">>}

Moves(a, b) == a = b \/ <<a, b>> \in Transitions

LifecycleKept ==
    /\ \A id \in UserIds :
          Life(users, purgedUsers, id) = Life(users', purgedUsers', id)
    /\ \A id \in ArticleIds :
          Life(articles, purgedArticles, id)
             = Life(articles', purgedArticles', id)

OnlyLifecycleTransitions ==
    [][/\ \A id \in UserIds :
             Moves(Life(users, purgedUsers, id),
                   Life(users', purgedUsers', id))
       /\ \A id \in ArticleIds :
             Moves(Life(articles, purgedArticles, id),
                   Life(articles', purgedArticles', id))
       /\ \A id \in UserIds, u \in Usernames \cup {NONE},
             e \in Emails \cup {NONE} :
             updateUser(id, u, e, NONE, NONE) => LifecycleKept
       /\ \A id \in UserIds : updateUserRole(id, "user") => LifecycleKept
       /\ \A id \in ArticleIds, r \in UpdateRequests :
             updateArticle(id, r[1], r[2]) => LifecycleKept]_vars

(***************************************************************************)
(* C5: restore succeeds exactly on a SoftDeleted record, which it makes    *)
(* Active with deleted-at cleared; it answers NotDeleted on an Active      *)
(* record and NotFound where no row exists; a failed restore changes       *)
(* nothing.                                                                *)
(***************************************************************************)
RestoreAnswer(table, id) ==
    IF IsSoftDeleted(table, id) THEN "ok"
    ELSE IF IsActive(table, id) THEN "NotDeleted"
    ELSE "NotFound"

RestoreAnswers ==
    /\ \A id \in UserIds : restoreUserOutcome(id) = RestoreAnswer(users, id)
    /\ \A id \in ArticleIds :
          restoreArticleOutcome(id) = RestoreAnswer(articles, id)

\* the table after deleted-at of row id is set to stamp and nothing else
Stamped(table, id, stamp) ==
    [i \in DOMAIN table |->
        IF i = id
        THEN [f \in DOMAIN table[i] |->
                 IF f = "deletedAt" THEN stamp ELSE table[i][f]]
        ELSE table[i]]

\* a step that leaves the tables alone meets all of it
RestoreEffect ==
    \/ UNCHANGED tables
    \/ /\ \A id \in UserIds :
             restoreUser(id) =>
                 /\ users' = IF IsSoftDeleted(users, id)
                             THEN Stamped(users, id, NULL) ELSE users
                 /\ UNCHANGED <<articles, nextUserId, nextArticleId>>
       /\ \A id \in ArticleIds :
             restoreArticle(id) =>
                 /\ articles' = IF IsSoftDeleted(articles, id)
                                THEN Stamped(articles, id, NULL) ELSE articles
                 /\ UNCHANGED <<users, nextUserId, nextArticleId>>

RestoreContract == []RestoreAnswers /\ [][RestoreEffect]_vars

\* C5, its cases: a SoftDeleted account that restore brings back, next to an
\* Active document on which restore answers NotDeleted
RestoreContractWitness ==
    /\ \E id \in UserIds :
          IsSoftDeleted(users, id) /\ restoreUserOutcome(id) = "ok"
    /\ \E id \in ArticleIds :
          IsActive(articles, id) /\ restoreArticleOutcome(id) = "NotDeleted"
    /\ \E id \in ArticleIds :
          id \in purgedArticles /\ restoreArticleOutcome(id) = "NotFound"

(***************************************************************************)
(* C6: purge succeeds on an Active or a SoftDeleted record and answers     *)
(* NotFound only where no row exists; a purged identity is never           *)
(* addressable again, whatever is done later, creates included: getById    *)
(* with either visibility, restore, update, softDelete and purge all       *)
(* answer NotFound for it.                                                 *)
(***************************************************************************)
PurgedStaysGone ==
    /\ \A id \in UserIds :
          forceDeleteUserOutcome(id) = "NotFound" <=> ~Exists(users, id)
    /\ \A id \in ArticleIds :
          forceDeleteArticleOutcome(id) = "NotFound" <=> ~Exists(articles, id)
    /\ \A id \in purgedUsers :
          /\ findByPk(users, id, TRUE) = NOID
          /\ findByPk(users, id, FALSE) = NOID
          /\ restoreUserOutcome(id) = "NotFound"
          /\ updateUserRoleOutcome(id) = "NotFound"
          /\ deleteUserOutcome(id) = "NotFound"
          /\ forceDeleteUserOutcome(id) = "NotFound"
    /\ \A id \in purgedArticles :
          /\ findByPk(articles, id, TRUE) = NOID
          /\ findByPk(articles, id, FALSE) = NOID
          /\ restoreArticleOutcome(id) = "NotFound"
          /\ \A r \in UpdateRequests :
                updateArticleOutcome(id, r[1], r[2]) = "NotFound"
          /\ \A actor \in Actors : deleteArticleOutcome(id, actor) = "NotFound"
          /\ forceDeleteArticleOutcome(id) = "NotFound"

(***************************************************************************)
(* C7 as stated: softDelete on a record that is already SoftDeleted still  *)
(* succeeds, and answers NotFound only where no row exists.                *)
(***************************************************************************)
SoftDeleteAnyFound ==
    /\ \A id \in UserIds :
          deleteUserOutcome(id) = "NotFound" <=> ~Exists(users, id)
    /\ \A id \in ArticleIds :
          deleteArticleOutcome(id, NOACTOR) = "NotFound"
             <=> ~Exists(articles, id)

(***************************************************************************)
(* C7 as the code has it: softDelete succeeds only on an Active record,    *)
(* whose deleted-at it stamps; on a SoftDeleted record, as where no row    *)
(* exists, it answers NotFound and changes nothing.                        *)
(***************************************************************************)
SoftDeleteAnswers ==
    /\ \A id \in UserIds :
          deleteUserOutcome(id)
             = IF IsActive(users, id) THEN "ok" ELSE "NotFound"
    /\ \A id \in ArticleIds, actor \in Actors :
          /\ deleteArticleOutcome(id, actor) = "NotFound"
                <=> ~IsActive(articles, id)
          /\ deleteArticleOutcome(id, actor) = "ok"
                <=> /\ IsActive(articles, id)
                    /\ actor \in {NOACTOR, 0, articles[id].userId}

\* a step that leaves the tables alone meets all of it
SoftDeleteEffect ==
    \/ UNCHANGED tables
    \/ /\ \A id \in UserIds :
             deleteUser(id) =>
                 /\ users' = IF IsActive(users, id)
                             THEN Stamped(users, id, NOW) ELSE users
                 /\ UNCHANGED <<articles, nextUserId, nextArticleId>>
       /\ \A id \in ArticleIds, actor \in Actors :
             deleteArticle(id, actor) =>
                 /\ articles' = IF deleteArticleOutcome(id, actor) = "ok"
                                THEN Stamped(articles, id, NOW) ELSE articles
                 /\ UNCHANGED <<users, nextUserId, nextArticleId>>

SoftDeleteActiveOnly == []SoftDeleteAnswers /\ [][SoftDeleteEffect]_vars

\* C7, its case: softDelete is asked again for a SoftDeleted account and
\* for a SoftDeleted document, and answers NotFound
SoftDeleteActiveOnlyWitness ==
    /\ \E id \in UserIds :
          IsSoftDeleted(users, id) /\ deleteUserOutcome(id) = "NotFound"
    /\ \E id \in ArticleIds :
          /\ IsSoftDeleted(articles, id)
          /\ deleteArticleOutcome(id, NOACTOR) = "NotFound"

(***************************************************************************)
(* C8 as stated: updateUser, updateUserRole and updateArticle apply their  *)
(* patch to a record in any lifecycle state, SoftDeleted included, and     *)
(* answer NotFound only where no row exists.                               *)
(***************************************************************************)
UpdateAnyFound ==
    /\ \A id \in UserIds :
          /\ updateUserRoleOutcome(id) = "NotFound" <=> ~Exists(users, id)
          /\ \A u \in Usernames \cup {NONE}, e \in Emails \cup {NONE} :
                updateUserOutcome(id, u, e, NOPW, NONE) = "NotFound"
                   <=> ~Exists(users, id)
    /\ \A id \in ArticleIds, r \in UpdateRequests :
          updateArticleOutcome(id, r[1], r[2]) = "NotFound"
             <=> ~Exists(articles, id)

(***************************************************************************)
(* C8 as the code has it: updateUser, updateUserRole and updateArticle     *)
(* find Active records only; on a SoftDeleted record, as where no row      *)
(* exists, they answer NotFound and change nothing; on an Active record    *)
(* an update that succeeds leaves the patched values in the row and        *)
(* deleted-at as it was.                                                   *)
(***************************************************************************)
UpdateAnswers ==
    /\ \A id \in UserIds :
          /\ updateUserRoleOutcome(id)
                = IF IsActive(users, id) THEN "ok" ELSE "NotFound"
          /\ \A u \in Usernames \cup {NONE}, e \in Emails \cup {NONE} :
                updateUserOutcome(id, u, e, NOPW, NONE) = "NotFound"
                   <=> ~IsActive(users, id)
    /\ \A id \in ArticleIds, r \in UpdateRequests :
          updateArticleOutcome(id, r[1], r[2]) = "NotFound"
             <=> ~IsActive(articles, id)

Patched(given, old, new) == new = IF given # NONE THEN given ELSE old

\* row id is in both tables and differs between them
Touched(old, new, id) == Exists(old, id) /\ Exists(new, id) /\ new[id] # old[id]

\* an update that changes a table changes the row it is given and writes
\* what instance.update computes, so the rows a step has touched, and the
\* requests whose values they now carry, are the only ones to look at
UpdateEffect ==
    /\ \A id \in UserIds :
          Touched(users, users', id) =>
              /\ \A u \in Usernames \cup {NONE}, e \in Emails \cup {NONE} :
                    (/\ users'[id] = UserUpdate(users[id], u, e, NOPW, NONE)
                     /\ updateUser(id, u, e, NONE, NONE))
                    => /\ updateUserOutcome(id, u, e, NOPW, NONE) = "ok"
                       /\ IsActive(users, id) /\ IsActive(users', id)
                       /\ Patched(u, users[id].username, users'[id].username)
                       /\ Patched(e, users[id].email, users'[id].email)
              /\ updateUserRole(id, "user") =>
                    /\ IsActive(users, id) /\ IsActive(users', id)
                    /\ users'[id].role = "user"
    /\ \A id \in ArticleIds :
          Touched(articles, articles', id) =>
              \A r \in UpdateRequests :
                 (/\ articles'[id] = ArticleUpdate(articles[id], r[1])
                  /\ updateArticle(id, r[1], r[2])) =>
                     /\ updateArticleOutcome(id, r[1], r[2]) = "ok"
                     /\ IsActive(articles, id) /\ IsActive(articles', id)
                     /\ Patched(r[1].title, articles[id].title,
                                articles'[id].title)
                     /\ Patched(r[1].content, articles[id].content,
                                articles'[id].content)

UpdateActiveOnly == []UpdateAnswers /\ [][UpdateEffect]_vars

\* C8, its case: the three updates are asked for SoftDeleted records and
\* answer NotFound
UpdateActiveOnlyWitness ==
    /\ \E id \in UserIds :
          /\ IsSoftDeleted(users, id)
          /\ updateUserRoleOutcome(id) = "NotFound"
          /\ updateUserOutcome(id, "bob", NONE, NOPW, NONE) = "NotFound"
    /\ \E id \in ArticleIds, r \in UpdateRequests :
          /\ IsSoftDeleted(articles, id)
          /\ updateArticleOutcome(id, r[1], r[2]) = "NotFound"

(***************************************************************************)
(* C9 (SpecAccounts): once createUser(e, c) has succeeded, authenticate(e, *)
(* c) returns the account created and authenticate(e, c') with another     *)
(* credential fails; every hashing step between the request and the row    *)
(* counts, and verify(p, h) holds exactly when h = hash(p).                *)
(***************************************************************************)
CreatedAccountAuthenticates ==
    [][\A u \in Usernames, e \in Emails, p \in Plain, r \in Roles \cup {NONE} :
          createUser(u, e, p, r) /\ createUserOutcome(u, e) = "ok"
          => /\ validatePasswordOutcome(e, plain(p))' = nextUserId
             /\ \A c \in Plain \ {p} :
                   validatePasswordOutcome(e, plain(c))' = NOID]_vars

(***************************************************************************)
(* C10 as stated (SpecAccounts): authenticate does not filter on the       *)
(* lifecycle state; a SoftDeleted account whose stored credential matches  *)
(* authenticates exactly as an Active one.                                 *)
(***************************************************************************)
AuthenticateAnyState ==
    \A i \in DOMAIN users, c \in Credentials :
        compare(c, users[i].password)
        => validatePasswordOutcome(users[i].email, c) = i

(***************************************************************************)
(* C10 as the code has it (SpecAccounts): authenticate looks among the     *)
(* Active accounts only; it returns the Active account that holds the      *)
(* email when the credential presented verifies against the stored one,    *)
(* and fails for every other email and credential, those of a SoftDeleted  *)
(* account with a matching credential included.                            *)
(***************************************************************************)
AuthenticateActiveOnly ==
    \A e \in Emails, c \in Credentials :
        LET matching == {i \in DOMAIN users :
                            /\ IsActive(users, i)
                            /\ users[i].email = e
                            /\ compare(c, users[i].password)}
        IN IF matching = {}
           THEN validatePasswordOutcome(e, c) = NOID
           ELSE validatePasswordOutcome(e, c) \in matching

\* C10, its case: a credential that verifies against the stored one is
\* presented for a SoftDeleted account and for an Active one; the first is
\* turned away, the second returned
AuthenticateActiveOnlyWitness ==
    /\ \E i \in DOMAIN users, c \in Credentials :
          /\ IsSoftDeleted(users, i)
          /\ compare(c, users[i].password)
          /\ validatePasswordOutcome(users[i].email, c) = NOID
    /\ \E i \in DOMAIN users, c \in Credentials :
          /\ IsActive(users, i)
          /\ compare(c, users[i].password)
          /\ validatePasswordOutcome(users[i].email, c) = i

(***************************************************************************)
(* C11 (SpecAccounts): no account operation of the service (createUser,    *)
(* getUserById, getUserByEmail, getUserByUsername, getUsers, updateUser,   *)
(* updateUserRole, restoreUser, validatePassword) hands back a record      *)
(* that carries the credential-hash field.                                 *)
(***************************************************************************)
NoCredential(records) == \A r \in records : "password" \notin DOMAIN r

CredentialNeverReturned ==
    /\ \A u \in Usernames, e \in Emails, p \in Plain, r \in Roles \cup {NONE} :
          nextUserId <= MaxUsers => NoCredential(createUserReturn(u, e, p, r))
    /\ \A id \in UserIds :
          /\ NoCredential(getUserByIdReturn(id))
          /\ NoCredential(restoreUserReturn(id))
          /\ \A r \in Roles : NoCredential(updateUserRoleReturn(id, r))
          /\ \A u \in Usernames \cup {NONE}, e \in Emails \cup {NONE},
                p \in Plain \cup {NONE} :
                NoCredential(updateUserReturn(
                    id, u, e, IF p = NONE THEN NOPW ELSE hash(plain(p)), NONE))
    /\ \A e \in Emails :
          /\ NoCredential(getUserByEmailReturn(e))
          /\ \A c \in Credentials : NoCredential(validatePasswordReturn(e, c))
    /\ \A u \in Usernames : NoCredential(getUserByUsernameReturn(u))
    /\ \A r \in Roles \cup {NONE} : NoCredential(getUsersRows(r))

(***************************************************************************)
(* C12  createArticle with an ownerId for which no account row exists      *)
(* fails with ParentNotFound and persists no document.                     *)
(***************************************************************************)
ParentAnswers ==
    \A b \in CreateBodies :
        ~Exists(users, b.userId) => createArticleOutcome(b) = "ParentNotFound"

ParentEffect ==
    \/ articles' = articles
    \/ \A b \in CreateBodies : ~Exists(users, b.userId) => ~createArticle(b)

ParentRequired == []ParentAnswers /\ [][ParentEffect]_vars

\* the owner named by the request was purged, another account exists, the
\* title is unused, and the request is answered ParentNotFound
ParentRequiredWitness ==
    \E b \in CreateBodies :
        /\ b.userId \in purgedUsers
        /\ ~Exists(users, b.userId)
        /\ DOMAIN users # {}
        /\ ~Held(articles, "title", b.title)
        /\ createArticleOutcome(b) = "ParentNotFound"

(***************************************************************************)
(* C13  As claimed: the parent check tests existence only, so creating a   *)
(* document with an unused title whose ownerId names a SoftDeleted account *)
(* succeeds.                                                               *)
(***************************************************************************)
Unused(b) ==
    /\ b.id = NOID
    /\ b.deletedAt = NULL
    /\ ~Held(articles, "title", b.title)
    /\ ~Held(articles, "content", b.content)

ParentAnyState ==
    \A b \in CreateBodies :
        IsSoftDeleted(users, b.userId) /\ Unused(b)
            => createArticleOutcome(b) = "ok"

(***************************************************************************)
(* C13  As the code has it: the parent check requires an Active account.   *)
(* Creating a document whose ownerId names a SoftDeleted account fails     *)
(* with ParentNotFound and persists no document; with an Active owner and  *)
(* an unused title and content it succeeds.                                *)
(***************************************************************************)
ParentActiveAnswers ==
    \A b \in CreateBodies :
        /\ IsSoftDeleted(users, b.userId)
              => createArticleOutcome(b) = "ParentNotFound"
        /\ IsActive(users, b.userId) /\ Unused(b)
              => createArticleOutcome(b) = "ok"

ParentActiveEffect ==
    \/ articles' = articles
    \/ \A b \in CreateBodies :
          IsSoftDeleted(users, b.userId) => ~createArticle(b)

ParentActiveOnly == []ParentActiveAnswers /\ [][ParentActiveEffect]_vars

\* a SoftDeleted owner, an unused title, and the answer ParentNotFound,
\* while another document exists
ParentActiveOnlyWitness ==
    \E b \in CreateBodies :
        /\ IsSoftDeleted(users, b.userId)
        /\ Unused(b)
        /\ DOMAIN articles # {}
        /\ createArticleOutcome(b) = "ParentNotFound"

(***************************************************************************)
(* C14  Every document's owner id references an account whose row existed  *)
(* at the moment the document row was written, under every interleaving    *)
(* of createArticle (owner read, title read and insert as separate steps)  *)
(* with a concurrent forceDeleteUser of that owner.                        *)
(***************************************************************************)
OwnerRowExists == \A a \in DOMAIN articles : Exists(users, articles[a].userId)

WrittenUnderOwner ==
    \A a \in DOMAIN articles' \ DOMAIN articles :
        /\ Exists(users, articles'[a].userId)
        /\ Exists(users', articles'[a].userId)

OwnerExistsAtWrite == []OwnerRowExists /\ [][WrittenUnderOwner]_vars

\* a createArticle that overlapped a forceDeleteUser of its owner: it found
\* the owner and a free title, the owner was purged, and the insert was
\* turned down
OwnerExistsAtWriteWitness ==
    \E p \in Procs :
        /\ reqs[p].op = "createArticle"
        /\ reqs[p].pc = "done"
        /\ reqs[p].res = "UniqueConstraintError"
        /\ reqs[p].userId \in purgedUsers
        /\ ~Held(articles, "title", reqs[p].title)
        /\ reqs[Other(p)].op = "forceDeleteUser"
        /\ reqs[Other(p)].id = reqs[p].userId
        /\ reqs[Other(p)].res = "ok"

(***************************************************************************)
(* C15  A create that fails leaves the store unchanged: when createArticle *)
(* is rejected because the title is already held by another document, or   *)
(* createUser because the email or handle is already held, the rejection   *)
(* is DuplicateValue, and the number of records and every existing         *)
(* record's fields and lifecycle state are as before the call.             *)
(***************************************************************************)
CreateRejections ==
    /\ \A u \in Usernames, e \in Emails :
          /\ createUserOutcome(u, e) # "ok"
          /\ Held(users, "username", u) \/ Held(users, "email", e)
          => createUserOutcome(u, e) = "DuplicateValue"
    /\ \A b \in CreateBodies :
          /\ createArticleOutcome(b) \notin {"ok", "ParentNotFound"}
          /\ b.id = NOID
          /\ Held(articles, "title", b.title)
          => createArticleOutcome(b) = "DuplicateValue"

FailedCreateWritesNothing ==
    \/ UNCHANGED <<users, articles>>
    \/ /\ \A u \in Usernames, e \in Emails :
             createUserOutcome(u, e) # "ok"
                => ~createUser(u, e, "Secret1A", NONE)
       /\ \A b \in CreateBodies :
             createArticleOutcome(b) # "ok" => ~createArticle(b)

FailedCreateContract == []CreateRejections /\ [][FailedCreateWritesNothing]_vars

(***************************************************************************)
(* C16  On update the uniqueness check excludes the record being updated   *)
(* and runs only for a field whose value changes: updating a record with   *)
(* its own current handle, email or title succeeds, while changing a       *)
(* unique field to a value held by a different record fails with           *)
(* DuplicateValue and leaves both records unchanged.                       *)
(***************************************************************************)
HeldByOther(table, field, value, id) ==
    \E j \in DOMAIN table \ {id} : table[j][field] = value

Retitle(title) == [title |-> title, content |-> NONE, userId |-> NOID]

OwnValueAccepted ==
    /\ \A id \in UserIds :
          IsActive(users, id) =>
             /\ updateUserOutcome(id, users[id].username, NONE, NOPW, NONE) = "ok"
             /\ updateUserOutcome(id, NONE, users[id].email, NOPW, NONE) = "ok"
    /\ \A id \in ArticleIds :
          IsActive(articles, id) =>
             updateArticleOutcome(id, Retitle(articles[id].title), NOACTOR) = "ok"

OtherValueRefused ==
    /\ \A id \in UserIds, u \in Usernames :
          IsActive(users, id) /\ HeldByOther(users, "username", u, id)
             => updateUserOutcome(id, u, NONE, NOPW, NONE) = "DuplicateValue"
    /\ \A id \in UserIds, e \in Emails :
          IsActive(users, id) /\ HeldByOther(users, "email", e, id)
             => updateUserOutcome(id, NONE, e, NOPW, NONE) = "DuplicateValue"
    /\ \A id \in ArticleIds, t \in Titles :
          IsActive(articles, id) /\ HeldByOther(articles, "title", t, id)
             => updateArticleOutcome(id, Retitle(t), NOACTOR) = "DuplicateValue"

RefusedUpdateWritesNothing ==
    \/ UNCHANGED <<users, articles>>
    \/ /\ \A id \in UserIds, u \in Usernames \cup {NONE}, e \in Emails \cup {NONE} :
             updateUserOutcome(id, u, e, NOPW, NONE) # "ok"
                => ~updateUser(id, u, e, NONE, NONE)
       /\ \A id \in ArticleIds, r \in UpdateRequests :
             updateArticleOutcome(id, r[1], r[2]) # "ok"
                => ~updateArticle(id, r[1], r[2])

UpdateUniqueAnswers == OwnValueAccepted /\ OtherValueRefused

UpdateUniqueness == []UpdateUniqueAnswers /\ [][RefusedUpdateWritesNothing]_vars

(***************************************************************************)
(* C17  For every actor id supplied to updateArticle or deleteArticle,     *)
(* every integer and 0 included, that differs from the document's owner    *)
(* id, the operation fails with Forbidden and leaves the document's fields *)
(* and lifecycle state unchanged; when the actor id equals the owner id or *)
(* is not supplied, ownership does not block the operation.                *)
(***************************************************************************)
Supplied == Actors \ {NOACTOR}

StrangerForbidden ==
    \A id \in ArticleIds, actor \in Supplied :
        IsActive(articles, id) /\ actor # articles[id].userId
           => /\ deleteArticleOutcome(id, actor) = "Forbidden"
              /\ \A patch \in UpdateBodies :
                    updateArticleOutcome(id, patch, actor) = "Forbidden"

OwnerNotBlocked ==
    \A id \in ArticleIds :
        IsActive(articles, id) =>
           \A actor \in {articles[id].userId, NOACTOR} :
              /\ deleteArticleOutcome(id, actor) = "ok"
              /\ \A patch \in UpdateBodies :
                    updateArticleOutcome(id, patch, actor) # "Forbidden"

OwnershipAnswers == StrangerForbidden /\ OwnerNotBlocked

ForbiddenWritesNothing ==
    \/ UNCHANGED articles
    \/ \A id \in ArticleIds, actor \in Supplied :
          IsActive(articles, id) /\ actor # articles[id].userId
             => /\ ~deleteArticle(id, actor)
                /\ \A patch \in UpdateBodies : ~updateArticle(id, patch, actor)

OwnershipEnforced == []OwnershipAnswers /\ [][ForbiddenWritesNothing]_vars

(***************************************************************************)
(* C18  batchDeleteUsers and batchDeleteArticles never fail because some   *)
(* ids are missing; they return the number of records they actually moved  *)
(* to SoftDeleted, which for a set of ids whose existing members are all   *)
(* Active and in scope equals the number of existing members (2 for        *)
(* [1,2,999] when 999 does not exist), and afterwards every existing       *)
(* record in the id set and scope is SoftDeleted.                          *)
(***************************************************************************)
\* the owner scope of a batch delete: every document when no owner is
\* supplied, the documents of the owner otherwise
InScope(a, actor) == actor = NOACTOR \/ articles[a].userId = actor

Members(table, ids) == DOMAIN table \cap ids

ScopedMembers(ids, actor) == {a \in Members(articles, ids) : InScope(a, actor)}

\* the records a step moved from Active to SoftDeleted
Moved(old, new) ==
    {i \in DOMAIN old : IsActive(old, i) /\ IsSoftDeleted(new, i)}

BatchAnswers ==
    /\ \A ids \in IdLists(UserIds) :
          /\ batchDeleteUsersOutcome(ids) \in 0..Cardinality(ids)
          /\ (\A i \in Members(users, ids) : IsActive(users, i))
                => batchDeleteUsersOutcome(ids)
                      = Cardinality(Members(users, ids))
          /\ (\A i \in Members(users, ids) : IsSoftDeleted(users, i))
                => batchDeleteUsersOutcome(ids) = 0
    /\ \A ids \in IdLists(ArticleIds), actor \in Actors :
          /\ batchDeleteArticlesOutcome(ids, actor) \in 0..Cardinality(ids)
          /\ (/\ Members(articles, ids) = ScopedMembers(ids, actor)
              /\ \A a \in Members(articles, ids) : IsActive(articles, a))
                => batchDeleteArticlesOutcome(ids, actor)
                      = Cardinality(Members(articles, ids))
          /\ (\A a \in Members(articles, ids) : IsSoftDeleted(articles, a))
                => batchDeleteArticlesOutcome(ids, actor) = 0

BatchEffect ==
    /\ \/ UNCHANGED users
       \/ \A ids \in IdLists(UserIds) :
             batchDeleteUsers(ids) =>
                /\ batchDeleteUsersOutcome(ids) = Cardinality(Moved(users, users'))
                /\ DOMAIN users' = DOMAIN users
                /\ \A i \in Members(users, ids) : IsSoftDeleted(users', i)
    /\ \/ UNCHANGED articles
       \/ \A matched \in SUBSET DOMAIN articles :
             articles' = BulkDestroy(articles, matched) =>
                \A ids \in IdLists(ArticleIds), actor \in Actors :
                   /\ ArticlesMatched(ids, actor) = matched
                   /\ batchDeleteArticles(ids, actor)
                   => /\ batchDeleteArticlesOutcome(ids, actor)
                            = Cardinality(Moved(articles, articles'))
                      /\ DOMAIN articles' = DOMAIN articles
                      /\ \A a \in ScopedMembers(ids, actor) :
                            IsSoftDeleted(articles', a)

BatchSoftDeleteCounts == []BatchAnswers /\ [][BatchEffect]_vars

\* accounts 1 and 2 are Active, id 3 names no account, and a batch delete
\* of [1, 2, 3] answers 2; a document is Active and in the scope of its
\* owner, and a batch delete of it and a missing id answers 1
BatchSoftDeleteCountsWitness ==
    /\ IsActive(users, 1) /\ IsActive(users, 2) /\ ~Exists(users, 3)
    /\ batchDeleteUsersOutcome({1, 2, 3}) = 2
    /\ \E a \in ArticleIds :
          /\ IsActive(articles, a)
          /\ ~Exists(articles, a + 1)
          /\ batchDeleteArticlesOutcome({a, a + 1}, articles[a].userId) = 1

(***************************************************************************)
(* C19  batchDeleteArticles(ids, ownerId) changes no document outside the  *)
(* intersection of the id set and the owner scope: for every supplied      *)
(* ownerId, every integer and 0 included, the documents whose id is not in *)
(* ids and the documents owned by a different account keep their           *)
(* lifecycle state and fields.                                             *)
(***************************************************************************)
OutsideScope(ids, owner) ==
    {a \in DOMAIN articles : a \notin ids \/ articles[a].userId # owner}

BatchStaysInScope ==
    \/ UNCHANGED articles
    \/ \A ids \in IdLists(ArticleIds), owner \in Supplied :
          batchDeleteArticles(ids, owner) =>
             \A a \in OutsideScope(ids, owner) :
                a \in DOMAIN articles' /\ articles'[a] = articles[a]

BatchScopeKept == [][BatchStaysInScope]_vars

(***************************************************************************)
(* C20  As claimed: deleting an account neither cascades to nor is blocked *)
(* by its documents.  deleteUser, batchDeleteUsers and forceDeleteUser on  *)
(* an account that owns documents succeed, and every document (lifecycle   *)
(* state, owner id, title and body) is unchanged afterwards.               *)
(***************************************************************************)
Owners == {u \in DOMAIN users : OwnedBy(u) # {}}

DeleteNotBlocked ==
    \A u \in Owners :
        /\ IsActive(users, u) => deleteUserOutcome(u) = "ok"
        /\ IsActive(users, u) => batchDeleteUsersOutcome({u}) = 1
        /\ forceDeleteUserOutcome(u) = "ok"

SoftDeleteLeavesDocuments ==
    /\ \A u \in Owners : deleteUser(u) => articles' = articles
    /\ \A ids \in IdLists(UserIds) :
          ids \cap Owners # {} /\ batchDeleteUsers(ids) => articles' = articles

PurgeLeavesDocuments ==
    \A u \in Owners : forceDeleteUser(u) => articles' = articles

AccountDeleteNoCascade ==
    /\ []DeleteNotBlocked
    /\ [][UNCHANGED users \/ (SoftDeleteLeavesDocuments /\ PurgeLeavesDocuments)]_vars

(***************************************************************************)
(* C20  As the code has it: deleting an account is never blocked by its    *)
(* documents.  deleteUser and batchDeleteUsers leave every document        *)
(* unchanged; forceDeleteUser succeeds and removes the account's documents *)
(* with it, leaving the documents of every other account unchanged.        *)
(***************************************************************************)
PurgeTakesDocuments ==
    \A u \in Owners :
        forceDeleteUser(u) =>
            /\ DOMAIN articles' = DOMAIN articles \ OwnedBy(u)
            /\ \A a \in DOMAIN articles' : articles'[a] = articles[a]

AccountDeleteCascadesOnPurge ==
    /\ []DeleteNotBlocked
    /\ [][UNCHANGED users \/ (SoftDeleteLeavesDocuments /\ PurgeTakesDocuments)]_vars

\* an account that owns a document was purged and the document went with
\* it, while another account keeps its document
AccountDeleteCascadesOnPurgeWitness ==
    \E u \in purgedUsers, a \in purgedArticles :
        /\ ~Exists(users, u)
        /\ ~Exists(articles, a)
        /\ \E v \in DOMAIN users : v # u /\ OwnedBy(v) # {}

(***************************************************************************)
(* C21  A document's owner id and every record's identity are immutable:   *)
(* after any sequence of operations, updateArticle with an arbitrary       *)
(* request body as patch included, each existing document's owner id is    *)
(* the one given to the createArticle that created it, and its identity    *)
(* the one assigned at creation.                                           *)
(***************************************************************************)
\* the records that a step keeps: same identity before and after
Kept(old, new) == DOMAIN old \cap DOMAIN new

OwnerAndIdentityKept ==
    \/ UNCHANGED <<users, articles>>
    \/ /\ \A a \in Kept(articles, articles') :
             articles'[a].userId = articles[a].userId
       /\ \A id \in ArticleIds, r \in UpdateRequests :
             updateArticle(id, r[1], r[2]) => DOMAIN articles' = DOMAIN articles
       /\ \A id \in UserIds, u \in Usernames \cup {NONE}, e \in Emails \cup {NONE} :
             updateUser(id, u, e, NONE, NONE) => DOMAIN users' = DOMAIN users

OwnerImmutable == [][OwnerAndIdentityKept]_vars

(***************************************************************************)
(* C22  Default reads never expose a SoftDeleted record: getUserById,      *)
(* getUserByEmail, getUserByUsername, getArticleById and the default       *)
(* getUsers, getArticles and searchArticles listings return a record only  *)
(* if it is Active, and return nothing for a SoftDeleted or purged id.     *)
(***************************************************************************)
Range(seq) == {seq[n] : n \in DOMAIN seq}

\* the listing requests that ask for no deleted records and that the
\* datastore serves
DefaultQueries ==
    {q \in FilterQueries : q.includeDeleted = NONE}
       \cup {q \in SortQueries : q.sortBy \in {NONE, "id", "title"}}

DefaultUserOptions ==
    {[UserDefaults EXCEPT !.search = k, !.role = r] :
        k \in {NONE, "o"}, r \in Roles \cup {NONE}}

LookupsHideDeleted ==
    /\ \A id \in UserIds :
          /\ getUserByIdOutcome(id) # NOID => IsActive(users, id)
          /\ ~IsActive(users, id) => getUserByIdReturn(id) = {}
    /\ \A id \in ArticleIds :
          /\ getArticleByIdOutcome(id) # NOID => IsActive(articles, id)
          /\ ~IsActive(articles, id) => getArticleByIdOutcome(id) = NOID
    /\ \A e \in Emails :
          /\ \A r \in getUserByEmailReturn(e) : r.deletedAt = NULL
          /\ (\A i \in DOMAIN users : users[i].email = e => IsSoftDeleted(users, i))
                => getUserByEmailReturn(e) = {}
    /\ \A u \in Usernames :
          /\ \A r \in getUserByUsernameReturn(u) : r.deletedAt = NULL
          /\ (\A i \in DOMAIN users :
                 users[i].username = u => IsSoftDeleted(users, i))
                => getUserByUsernameReturn(u) = {}

ListingsHideDeleted ==
    /\ \A o \in DefaultUserOptions :
          \A i \in Range(getUsersReturn(o)) : IsActive(users, i)
    /\ \A q \in DefaultQueries :
          /\ \A a \in Range(getArticlesReturn(getArticlesOptions(q))) :
                IsActive(articles, a)
          /\ \A k \in Keywords :
                \A a \in Range(searchArticlesReturn(k, searchArticlesOptions(q))) :
                   IsActive(articles, a)

DefaultReadsHideDeleted == LookupsHideDeleted /\ ListingsHideDeleted

\* an account and a document are SoftDeleted and not found, another account
\* and another document are Active and listed
DefaultReadsHideDeletedWitness ==
    /\ \E i, j \in DOMAIN users :
          /\ IsSoftDeleted(users, i)
          /\ getUserByIdOutcome(i) = NOID
          /\ Range(getUsersReturn(UserDefaults)) = {j}
    /\ \E a, b \in DOMAIN articles :
          /\ IsSoftDeleted(articles, a)
          /\ getArticleByIdOutcome(a) = NOID
          /\ Range(getArticlesReturn(ArticleDefaults)) = {b}

(***************************************************************************)
(* C23  A listing that asks for deleted records includes every SoftDeleted *)
(* record, with its deleted-at set, for accounts (getUsers) as well as for *)
(* documents (getArticles with includeDeleted).                            *)
(***************************************************************************)
IncludeDeletedQuery == [NoQuery EXCEPT !.includeDeleted = "true"]

DeletedDocumentsListed ==
    \A a \in DOMAIN articles :
       IsSoftDeleted(articles, a) =>
          /\ a \in Range(getArticlesReturn(getArticlesOptions(IncludeDeletedQuery)))
          /\ articles[a].deletedAt # NULL

\* UserQueryOptions carries no includeDeleted: the options below are all a
\* caller of getUsers can choose from
DeletedAccountsListed ==
    \A i \in DOMAIN users :
       IsSoftDeleted(users, i) =>
          \E o \in UserOptions : i \in Range(getUsersReturn(o))

IncludeDeletedLists == DeletedDocumentsListed /\ DeletedAccountsListed

(***************************************************************************)
(* C24  Pagination metadata: for every total >= 0 and every positive       *)
(* limit, totalPages is the ceiling of total / limit (3 for total 23 and   *)
(* limit 10, 0 for total 0) and the offset is (page - 1) * limit (0 for    *)
(* page 1, 20 for page 3 with limit 10); a request that names neither gets *)
(* page 1 and limit 10.                                                    *)
(***************************************************************************)
\* n is the ceiling of total / limit: the least count of pages of limit
\* records that hold total records
IsCeiling(n, total, limit) ==
    /\ n * limit >= total
    /\ (n - 1) * limit < total

\* the requests whose page and limit, where given, are positive
PositivePageQueries ==
    {q \in PageQueries : \A n \in q.page \cup q.limit : n > 0}

PageCountIsCeiling ==
    /\ \A total \in 0..MaxTotal, limit \in (1..MaxLimit) \cup {10} :
          IsCeiling(TotalPages(total, limit), total, limit)
    /\ TotalPages(23, 10) = 3
    /\ \A limit \in 1..MaxLimit : TotalPages(0, limit) = 0

ListingMetaIsCeiling ==
    /\ \A q \in PositivePageQueries :
          LET o == getArticlesOptions(q)
              m == getArticlesPagination(o)
          IN /\ m.total = Cardinality(getArticlesWhere(o))
             /\ IsCeiling(m.totalPages, m.total, o.limit)
             /\ m.page = o.page /\ m.limit = o.limit
             /\ \A p \in q.page, l \in q.limit : Offset(o) = (p - 1) * l
             /\ q.page = {} => o.page = 1 /\ Offset(o) = 0
             /\ q.limit = {} => o.limit = 10
    /\ \A p \in 1..MaxPage, l \in 1..MaxLimit :
          LET o == [UserDefaults EXCEPT !.page = p, !.limit = l]
              m == getUsersPagination(o)
          IN /\ m.total = Cardinality(getUsersWhere(o))
             /\ IsCeiling(m.totalPages, m.total, l)
             /\ Offset(o) = (p - 1) * l

OffsetExamples ==
    /\ Offset(ArticleDefaults) = 0
    /\ Offset([ArticleDefaults EXCEPT !.page = 3]) = 20
    /\ Offset(UserDefaults) = 0
    /\ UserDefaults.page = 1 /\ UserDefaults.limit = 10
    /\ ArticleDefaults.page = 1 /\ ArticleDefaults.limit = 10

PaginationMetadata == PageCountIsCeiling /\ ListingMetaIsCeiling /\ OffsetExamples

\* one document is listed two to a page: one page, not a full one, and the
\* second page of the same listing starts at offset 2
PaginationMetadataWitness ==
    /\ Cardinality(getArticlesWhere(ArticleDefaults)) = 1
    /\ \E q \in PositivePageQueries :
          /\ q.limit = {2} /\ q.page = {2}
          /\ getArticlesPagination(getArticlesOptions(q)).totalPages = 1
          /\ Offset(getArticlesOptions(q)) = 2

(***************************************************************************)
(* C25  For every page and limit a request can carry, 0 and negative       *)
(* numbers included, the page and the limit that reach the store query are *)
(* positive integers: the offset is never negative and totalPages is never *)
(* computed with a limit of 0 or less.                                     *)
(***************************************************************************)
PositivePaging(o) ==
    /\ o.page > 0
    /\ o.limit > 0
    /\ Offset(o) >= 0

PagingCoerced ==
    \A q \in PageQueries :
       /\ PositivePaging(getArticlesOptions(q))
       /\ PositivePaging(ByUserIdOptions(1, getArticlesByUserIdOptions(q)))
       /\ PositivePaging(searchArticlesOptions(q))
       /\ getArticlesStatus(getArticlesOptions(q)) = "ok" =>
             getArticlesPagination(getArticlesOptions(q)).totalPages # NOTFINITE

(***************************************************************************)
(* C26  The sort field that reaches the store query is always one of the   *)
(* allow-list, {id, title, createdAt, updatedAt} for documents: a request  *)
(* naming any other field is rejected or served in the default order,      *)
(* createdAt DESC.                                                         *)
(***************************************************************************)
\* query('sortBy').optional().isIn([...])
ArticleSortFields == {"id", "title", "createdAt", "updatedAt"}

DefaultOrder(o) ==
    [o EXCEPT !.sortBy = ArticleDefaults.sortBy,
              !.sortOrder = ArticleDefaults.sortOrder]

SortFieldAllowed ==
    \A q \in SortQueries :
       LET o == getArticlesOptions(q)
       IN \/ o.sortBy \in ArticleSortFields
          \/ getArticlesStatus(o) # "ok"
          \/ getArticlesReturn(o) = getArticlesReturn(DefaultOrder(o))

(***************************************************************************)
(* C27  A listing (getUsers, getArticles) returns exactly the records at   *)
(* positions offset .. offset + limit - 1 of the visible records that      *)
(* satisfy every supplied filter, in the requested sort order: at most     *)
(* limit records, and total is the number of all matching records.         *)
(***************************************************************************)
\* value holds keyword as a run of consecutive characters
Contains(value, keyword) ==
    LET v == Weights(Chars(value))
        k == Weights(Chars(keyword))
    IN \E n \in 0..Len(v) : n + Len(k) <= Len(v) /\ SubSeq(v, n + 1, n + Len(k)) = k

\* the documents a request asks for, read off the request itself
DocumentsAsked(q) ==
    {a \in DOMAIN articles :
        /\ q.includeDeleted # "true" => IsActive(articles, a)
        /\ \A u \in q.userId : articles[a].userId = u
        /\ q.title # NONE => Contains(articles[a].title, q.title)}

AccountsAsked(o) ==
    {i \in DOMAIN users :
        /\ IsActive(users, i)
        /\ o.role # NONE => users[i].role = o.role
        /\ o.search # NONE =>
              Contains(users[i].username, o.search) \/ Contains(users[i].email, o.search)}

\* rows is the page of the records asked, under the options o
IsPageOf(table, asked, rows, o) ==
    LET ahead(i) ==
            {j \in asked :
                IF o.sortOrder = "ASC"
                THEN SortKey(table, j, o.sortBy) < SortKey(table, i, o.sortBy)
                ELSE SortKey(table, j, o.sortBy) > SortKey(table, i, o.sortBy)}
        rest == Cardinality(asked) - Offset(o)
    IN /\ Len(rows) <= o.limit
       /\ Len(rows) = IF rest < 0 THEN 0 ELSE IF rest < o.limit THEN rest ELSE o.limit
       /\ \A n \in DOMAIN rows :
             /\ rows[n] \in asked
             /\ Cardinality(ahead(rows[n])) = Offset(o) + n - 1

DocumentPages ==
    \A q \in ListQueries \cup FilterQueries :
       LET o == getArticlesOptions(q)
       IN /\ getArticlesStatus(o) = "ok"
          /\ IsPageOf(articles, DocumentsAsked(q), getArticlesReturn(o), o)
          /\ getArticlesPagination(o).total = Cardinality(DocumentsAsked(q))

AccountPages ==
    \A o \in UserOptions :
       /\ getUsersStatus(o) = "ok"
       /\ IsPageOf(users, AccountsAsked(o), getUsersReturn(o), o)
       /\ getUsersPagination(o).total = Cardinality(AccountsAsked(o))

ListingIsPage == AccountPages /\ DocumentPages

\* the same over the requests that name an owner other than 0 and a title
\* without a wildcard
PlainListQueries ==
    {q \in ListQueries \cup FilterQueries : 0 \notin q.userId /\ q.title # "_"}

PlainDocumentPages ==
    \A q \in PlainListQueries :
       LET o == getArticlesOptions(q)
       IN /\ getArticlesStatus(o) = "ok"
          /\ IsPageOf(articles, DocumentsAsked(q), getArticlesReturn(o), o)
          /\ getArticlesPagination(o).total = Cardinality(DocumentsAsked(q))

(***************************************************************************)
(* C28  Every document getArticlesByUserId returns has owner id equal to   *)
(* the ownerId asked for, for every integer ownerId the request layer can  *)
(* pass, 0 included; options of the caller cannot override the owner.      *)
(***************************************************************************)
OwnerIds == 0..MaxUsers

AllOwnedBy(rows, userId) == Range(rows) \subseteq OwnedBy(userId)

OwnerFilterKept ==
    \A userId \in OwnerIds :
       /\ \A q \in FilterQueries :
             /\ ByUserIdOptions(userId, getArticlesOptions(q)).userId = userId
             /\ AllOwnedBy(getArticlesByUserIdReturn(userId, getArticlesOptions(q)),
                           userId)
       /\ AllOwnedBy(getArticlesByUserIdReturn(userId,
                                               getArticlesByUserIdOptions(NoQuery)),
                     userId)

\* the same for the owner ids other than 0
PositiveOwnerFilterKept ==
    \A userId \in OwnerIds \ {0} :
       \A q \in FilterQueries :
          /\ ByUserIdOptions(userId, getArticlesOptions(q)).userId = userId
          /\ AllOwnedBy(getArticlesByUserIdReturn(userId, getArticlesOptions(q)),
                        userId)

(***************************************************************************)
(* C29  searchArticles matches exactly the visible documents whose title   *)
(* contains the keyword or whose body contains the keyword; with an owner  *)
(* id supplied, the match is restricted to that owner as well.             *)
(***************************************************************************)
OwnerQueries == {[NoQuery EXCEPT !.userId = u] : u \in RawOwners}

DocumentsHolding(keyword, q) ==
    {a \in DOMAIN articles :
        /\ IsActive(articles, a)
        /\ \/ Contains(articles[a].title, keyword)
           \/ Contains(articles[a].content, keyword)
        /\ \A u \in q.userId : articles[a].userId = u}

SearchFinds(keyword, q) ==
    LET o == searchArticlesOptions(q)
    IN /\ searchArticlesWhere(keyword, o) = DocumentsHolding(keyword, q)
       /\ Range(searchArticlesReturn(keyword, o)) = DocumentsHolding(keyword, q)
       /\ searchArticlesPagination(keyword, o).total
             = Cardinality(DocumentsHolding(keyword, q))

SearchMatchesExactly ==
    \A keyword \in Keywords, q \in OwnerQueries : SearchFinds(keyword, q)

\* the same for the keywords without a wildcard and the owner ids other
\* than 0
PlainSearchMatchesExactly ==
    \A keyword \in Keywords \ {"_"}, q \in OwnerQueries :
       0 \notin q.userId => SearchFinds(keyword, q)

(***************************************************************************)
(* C30  Account email uniqueness is case-insensitive: no two existing      *)
(* accounts hold emails that differ only in letter case, and createUser or *)
(* updateUser with an email equal up to case to the email of another       *)
(* account is rejected as a duplicate.                                     *)
(***************************************************************************)
NoEmailsEqualUpToCase ==
    \A i, j \in DOMAIN users :
       i # j => ~SameText(users[i].email, users[j].email)

\* the accounts other than id that hold email up to case, among holders
EmailHolders(holders, email, id) ==
    {j \in holders \ {id} : SameText(users[j].email, email)}

CreateRefusedAsDuplicate(holders) ==
    \A u \in Usernames, e \in CaseEmails :
       EmailHolders(holders, e, NOID) # {} =>
          createUserOutcome(u, e) = "DuplicateValue"

UpdateRefusedAsDuplicate(holders) ==
    \A id \in DOMAIN users, e \in CaseEmails :
       IsActive(users, id) /\ EmailHolders(holders, e, id) # {} =>
          updateUserOutcome(id, NONE, e, NOPW, NONE) = "DuplicateValue"

EmailUniqueUpToCase ==
    /\ NoEmailsEqualUpToCase
    /\ CreateRefusedAsDuplicate(DOMAIN users)
    /\ UpdateRefusedAsDuplicate(DOMAIN users)

\* the same with the Active accounts alone as the holders of an email
EmailUniqueUpToCaseAmongActive ==
    /\ NoEmailsEqualUpToCase
    /\ CreateRefusedAsDuplicate(Visible(users, TRUE))
    /\ UpdateRefusedAsDuplicate(Visible(users, TRUE))

\* no request for an email held up to case is ever accepted
EmailUpToCaseNeverAccepted ==
    /\ \A u \in Usernames, e \in CaseEmails :
          EmailHolders(DOMAIN users, e, NOID) # {} => createUserOutcome(u, e) # "ok"
    /\ \A id \in DOMAIN users, e \in CaseEmails :
          EmailHolders(DOMAIN users, e, id) # {} =>
             updateUserOutcome(id, NONE, e, NOPW, NONE) # "ok"

(***************************************************************************)
(* C31  A successful create (createUser, createArticle) adds exactly one   *)
(* record, in Active state, with an identity different from every identity *)
(* assigned before, purged ones included; an account created without a     *)
(* role has the role 'user'.                                               *)
(***************************************************************************)
\* new is old with exactly one more row, Active, under an identity that no
\* row holds and no purged row held
OneFreshActive(old, new, purged) ==
    /\ DOMAIN old \subseteq DOMAIN new
    /\ \A i \in DOMAIN old : new[i] = old[i]
    /\ Cardinality(DOMAIN new \ DOMAIN old) = 1
    /\ \A i \in DOMAIN new \ DOMAIN old :
          /\ new[i].deletedAt = NULL
          /\ i \notin purged

AccountCreatedFresh ==
    \/ users' = users
    \/ \A u \in Usernames, e \in Emails :
          createUser(u, e, "Secret1A", NONE) =>
             /\ OneFreshActive(users, users', purgedUsers)
             /\ \A i \in DOMAIN users' \ DOMAIN users : users'[i].role = "user"

DocumentCreatedFresh(bodies) ==
    \/ articles' = articles
    \/ \A body \in bodies :
          createArticle(body) => OneFreshActive(articles, articles', purgedArticles)

CreateAddsOneFresh ==
    [][AccountCreatedFresh /\ DocumentCreatedFresh(CreateBodies)]_vars

\* the same for the bodies that carry title, content and userId only
PlainCreateAddsOneFresh ==
    [][AccountCreatedFresh
          /\ DocumentCreatedFresh({b \in CreateBodies :
                                      b.id = NOID /\ b.deletedAt = NULL})]_vars

(***************************************************************************)
(* C32  Stats agree with the store in every quiescent state: getUserStats  *)
(* and getArticleStats report active = number of Active records, deleted = *)
(* number of SoftDeleted records and total = active + deleted, and the     *)
(* per-role counts of accounts sum to the count they partition.            *)
(***************************************************************************)
ActiveIn(table) == {i \in DOMAIN table : IsActive(table, i)}

SoftDeletedIn(table) == {i \in DOMAIN table : IsSoftDeleted(table, i)}

StatsCountStates(s, table) ==
    /\ s.active = Cardinality(ActiveIn(table))
    /\ s.deleted = Cardinality(SoftDeletedIn(table))

StatsTotalIsSum(s) == s.total = s.active + s.deleted

RolesPartition(s) == s.admins + s.regular = s.active

StatsConsistent ==
    /\ StatsCountStates(getUserStatsReturn, users)
    /\ StatsCountStates(getArticleStatsReturn(NOOWNER), articles)
    /\ RolesPartition(getUserStatsReturn)
    /\ StatsTotalIsSum(getUserStatsReturn)
    /\ StatsTotalIsSum(getArticleStatsReturn(NOOWNER))

\* the same without the two totals
StatsConsistentButTotal ==
    /\ StatsCountStates(getUserStatsReturn, users)
    /\ StatsCountStates(getArticleStatsReturn(NOOWNER), articles)
    /\ RolesPartition(getUserStatsReturn)

(***************************************************************************)
(* C33  createArticle succeeds, adding a new Active document, whenever the *)
(* owner account exists and no document in any lifecycle state holds the   *)
(* title, whatever the body is: two documents with different titles may    *)
(* carry the same body.                                                    *)
(***************************************************************************)
AnyBody(title, content, userId) ==
    [title |-> title, content |-> content, userId |-> userId,
     id |-> NOID, deletedAt |-> NULL]

TitleFree(title) == \A a \in DOMAIN articles : ~SameText(articles[a].title, title)

ContentFree(content) == \A a \in DOMAIN articles : articles[a].content # content

CreateAccepted(body) ==
    /\ createArticleOutcome(body) = "ok"
    /\ LET a == ArticleNewId(body)
       IN /\ a \notin DOMAIN articles
          /\ ArticleCreate(body)[a].deletedAt = NULL

AnyBodyAccepted ==
    \A t \in Titles, c \in Contents, o \in UserIds :
       IsActive(users, o) /\ TitleFree(t) => CreateAccepted(AnyBody(t, c, o))

\* the same for the bodies that no document carries yet
FreshBodyAccepted ==
    \A t \in Titles, c \in Contents, o \in UserIds :
       IsActive(users, o) /\ TitleFree(t) /\ ContentFree(c)
          => CreateAccepted(AnyBody(t, c, o))

(***************************************************************************)
(* C34 (SpecAccounts): once updateUser(id, patch) with patch.password = c2 *)
(* has succeeded on an account with email e, authenticate(e, c2) returns   *)
(* the account and authenticate(e, c1) with the previous credential c1     *)
(* fails; the hashing of the service and of the model hook both count.     *)
(***************************************************************************)
PasswordChanged(id, p) ==
    /\ updateUser(id, NONE, NONE, p, NONE)
    /\ updateUserOutcome(id, NONE, NONE, hash(plain(p)), NONE) = "ok"

NewCredentialAccepted ==
    \A id \in UserIds, p \in Plain :
       PasswordChanged(id, p) =>
          validatePasswordOutcome(users[id].email, plain(p))' = id

OldCredentialRefused ==
    \A id \in UserIds, p \in Plain :
       PasswordChanged(id, p) =>
          \A c \in Plain \ {p} :
             validatePasswordOutcome(users[id].email, plain(c))' = NOID

UpdatedCredentialAuthenticates ==
    [][users' = users \/ (NewCredentialAccepted /\ OldCredentialRefused)]_vars

\* the half about the previous credential alone
UpdatedCredentialRefusesOld == [][users' = users \/ OldCredentialRefused]_vars

(***************************************************************************)
(* C35 (SpecAccounts): operations that do not name the credential leave    *)
(* the stored credential-hash unchanged: updateUser with a patch without   *)
(* password, updateUserRole, deleteUser and restoreUser never re-hash it,  *)
(* so authenticate gives the same outcome for every credential before and  *)
(* after; updateUserRole changes no field other than role.                 *)
(***************************************************************************)
HashKept(id) == users'[id].password = users[id].password

\* authenticate with the email of account id, in this state
Authenticates(id, c) == validatePasswordOutcome(users[id].email, c)

AuthenticateSame(id) == \A c \in Credentials : Authenticates(id, c)' = Authenticates(id, c)

\* account id is written by a request that names no credential
PlainUpdate(id) ==
    \/ \E u \in Usernames \cup {NONE}, e \in Emails \cup {NONE}, r \in Roles \cup {NONE} :
          updateUser(id, u, e, NONE, r)
    \/ \E r \in Roles : updateUserRole(id, r)

RoleOnly(id) ==
    \A r \in Roles :
       updateUserRole(id, r) => users' = [users EXCEPT ![id].role = r]

\* as stated: the four operations keep the hash and the outcomes alike
CredentialFrame ==
    [][\/ users' = users
       \/ \A id \in DOMAIN users :
             /\ PlainUpdate(id) \/ deleteUser(id) \/ restoreUser(id)
                   => HashKept(id) /\ AuthenticateSame(id)
             /\ RoleOnly(id)]_vars

\* C35 amended: the four operations keep the hash; an update keeps the
\* outcomes of authenticate, a softDelete makes every credential fail and
\* a restore makes the credential that verifies against the hash succeed
CredentialHashFrame ==
    [][\/ users' = users
       \/ \A id \in DOMAIN users :
             /\ PlainUpdate(id) => HashKept(id) /\ AuthenticateSame(id)
             /\ RoleOnly(id)
             /\ deleteUser(id) =>
                   /\ HashKept(id)
                   /\ \A c \in Credentials : Authenticates(id, c)' = NOID
             /\ restoreUser(id) =>
                   /\ HashKept(id)
                   /\ \A c \in Credentials :
                         Authenticates(id, c)'
                            = IF compare(c, users[id].password) THEN id ELSE NOID]_vars

\* an account was soft-deleted after its role was raised: the hash is the
\* one createUser stored and no credential authenticates
CredentialHashFrameWitness ==
    \E id \in DOMAIN users :
       /\ IsSoftDeleted(users, id)
       /\ users[id].role = "admin"
       /\ users[id].username = "bob" /\ users[id].email = "a@x.com"
       /\ users[id].password = hash(hash(plain("Secret1A")))
       /\ \A c \in Credentials : Authenticates(id, c) = NOID

(***************************************************************************)
(* C36  softDelete(id) followed by restore(id) on an Active record is a    *)
(* round trip: the record is Active again with the same identity and the   *)
(* same fields as before the softDelete, and every other record is         *)
(* unchanged.                                                              *)
(***************************************************************************)
\* the step soft-deletes the Active account id; a restore asked next is
\* accepted and writes back the table of before the softDelete
AccountRoundTrip(id) ==
    (/\ IsActive(users, id)
     /\ users' = Destroy(users, id)
     /\ deleteUser(id))
    => /\ restoreUserOutcome(id)' = "ok"
       /\ Restore(users', id) = users
       /\ IsActive(Restore(users', id), id)
       /\ articles' = articles

DocumentRoundTrip(id) ==
    (/\ IsActive(articles, id)
     /\ articles' = Destroy(articles, id)
     /\ \E actor \in Actors : deleteArticle(id, actor))
    => /\ restoreArticleOutcome(id)' = "ok"
       /\ Restore(articles', id) = articles
       /\ IsActive(Restore(articles', id), id)
       /\ users' = users

SoftDeleteRestoreRoundTrip ==
    [][\/ users' = users /\ articles' = articles
       \/ /\ \A id \in DOMAIN users : AccountRoundTrip(id)
          /\ \A id \in DOMAIN articles : DocumentRoundTrip(id)]_vars

\* an account and a document are SoftDeleted beside an Active account and
\* an Active document, and the restore of each is accepted and gives an
\* Active record
SoftDeleteRestoreRoundTripWitness ==
    /\ \E i, j \in DOMAIN users :
          /\ IsSoftDeleted(users, i) /\ IsActive(users, j)
          /\ restoreUserOutcome(i) = "ok"
          /\ IsActive(Restore(users, i), i)
          /\ Restore(users, i)[j] = users[j]
    /\ \E a, b \in DOMAIN articles :
          /\ IsSoftDeleted(articles, a) /\ IsActive(articles, b)
          /\ restoreArticleOutcome(a) = "ok"
          /\ IsActive(Restore(articles, a), a)
          /\ Restore(articles, a)[b] = articles[b]

(***************************************************************************)
(* C37  Under every interleaving of updateUser(id, patch) with a           *)
(* concurrent forceDeleteUser(id) or deleteUser(id), updateUser either     *)
(* fails NotFound or returns the updated account: it never reports         *)
(* success with an absent (null) record, and it never re-creates a purged  *)
(* row.                                                                    *)
(***************************************************************************)
\* the updateUser requests that have returned
UpdatesDone == {p \in Procs : At(p, "updateUser", "done")}

\* an updateUser that returns without throwing returns an account
UpdateReturnsAccount == \A p \in UpdatesDone : reqs[p].res # "null"

\* no purged identity is a row again
PurgedStayPurged == purgedUsers \cap DOMAIN users = {}

UpdateUnderDelete == UpdateReturnsAccount /\ PurgedStayPurged

\* an updateUser has written past a purge of its row: the row is not back
UpdateWrotePastPurge ==
    \E p \in Procs :
       /\ reqs[p].op = "updateUser" /\ reqs[p].pc \in {"reread", "done"}
       /\ reqs[p].id \in purgedUsers

(***************************************************************************)
(* C38  getArticleStats computes deleted as (count including SoftDeleted)  *)
(* minus (count of Active) from two separate reads; under every            *)
(* interleaving of those reads with concurrent createArticle,              *)
(* deleteArticle, restoreArticle and forceDeleteArticle, the reported      *)
(* deleted count is never negative and never exceeds the number of         *)
(* documents that were SoftDeleted at some moment during the call.         *)
(***************************************************************************)
\* the getArticleStats calls that have returned
StatsDone == {p \in Procs : At(p, "getArticleStats", "done")}

DeletedNeverNegative == \A p \in StatsDone : StatsDeleted(p) >= 0

DeletedWithinSeen ==
    \A p \in StatsDone : StatsDeleted(p) <= Cardinality(reqs[p].seen)

DeletedCountBounded == DeletedNeverNegative /\ DeletedWithinSeen

\* served with no write between its two counts, the call reports the
\* number of SoftDeleted documents: here after a delete preceded it
StatsAfterDelete ==
    \E p \in StatsDone :
       /\ reqs[p].peers = 0
       /\ StatsDeleted(p) = 1
       /\ reqs[p].seen # {}

====
